---- MODULE Spec2Model ----
(***************************************************************************)
(* A model of ringbahn's completion machinery.                             *)
(*                                                                         *)
(* The repository carries several generations of the same component.  Each *)
(* generation is modelled from its own source file and checked under its   *)
(* own specification:                                                      *)
(*                                                                         *)
(*   SpecCell  src/ring/completion.rs + src/ring/cancellation.rs           *)
(*             the mutex-guarded completion cell and the Cancel/handle     *)
(*             cancellation payload                                        *)
(*   SpecSub   src/submission.rs + src/driver/completion.rs                *)
(*             the Submission future polled by a task while the CQ reader  *)
(*             dispatches                                                  *)
(*   SpecRing  src/ring.rs, src/ring/mod.rs, src/engine.rs                 *)
(*             buffer ownership of a Ring handle across cancel and drop    *)
(*   SpecSeg   src/kernel/submission_queue.rs, sqe.rs, hard_linked.rs      *)
(*             a reservation of SQ entries, its user-data and link flags   *)
(*   SpecDrv   src/drive/demo.rs, src/drive/demo/mod.rs                    *)
(*             poll_prepare of the two demo drivers on a full queue        *)
(*   SpecBuf   src/buf.rs, src/buf/mod.rs, src/buf/data.rs                 *)
(*             the cursors and the allocation of a Buffer                  *)
(*   SpecFile  src/fs.rs                                                   *)
(*             a File, its buffer, its offset and its descriptor           *)
(*   SpecAq    src/drive/demo/access_queue.rs                              *)
(*             the count of an AccessQueue under concurrent block/release  *)
(*   SpecWake  src/ring/completion.rs, src/completion.rs                   *)
(*   SpecEng   src/engine.rs, src/ring/engine.rs                           *)
(*   SpecDemo  src/drive/demo/mod.rs, src/drive/demo/access_queue.rs       *)
(*             the order of store, unlock and wake inside complete         *)
(***************************************************************************)
EXTENDS Integers, Sequences, FiniteSets, TLC

\* ------------------------------------------------------------------------
\* Bounds of the model
\* ------------------------------------------------------------------------

\* Wakers are numbered 1..MaxWaker; two wakers wake the same task iff equal.
MaxWaker == 3

\* Largest magnitude of a raw CQE result the kernel reports in the model.
MaxRes == 2

\* Buffers a Ring allocates, and operations it prepares, in one behaviour.
MaxBufs == 2
MaxOps == 2

\* Size of the SQ entry array (a power of two), largest reservation, and the
\* number of entries reserved in one behaviour.
ENTRIES == 4
MaxN == 3
MaxTail == 6

\* The demo drivers: size of their submission queue, largest number of
\* entries one event asks for, accesses the AccessQueue hands out, and
\* iterations of the loop of one poll_prepare call that are followed.
DrvEntries == 2
MaxCount == 2
MaxPermits == 2
MaxIter == 3

\* The Buffer: length of its allocation (4096 * 2 in the source), the range
\* of its u32 cursors (2^32 in the source), allocations made in one
\* behaviour, and the amounts consume is called with, below and above the
\* range of the cursors.
BufSize == 2
CursorMod == 8
MaxBufAllocs == 2

\* SpecFile: the longest file, and the furthest offset a seek goes to
MaxFileLen == 3

MaxSeek == 2

MaxOlds == 1

\* SpecAq: the threads that call block, the largest amount blocked or
\* released at once, and the total amount released
AqThreads == {1, 2}

MaxAmt == 2

MaxReleased == 2

\* SpecEng: polls of one operation counted after its poll_submit was Ready
MaxResubmits == 2

\* SpecDemo: the tasks that call poll_prepare
DemoTasks == {1, 2}
Amounts == {0, 1, 2, CursorMod - 1, CursorMod, CursorMod + 1}

Wakers == 1..MaxWaker

\* cqe.res values: a negative errno, zero, a positive byte count
RawResults == (0 - MaxRes)..MaxRes

\* Waker::will_wake as used by the cell: same task
will_wake(old, new) == old = new

\* ------------------------------------------------------------------------
\* State
\* ------------------------------------------------------------------------

VARIABLES
    \* --- SpecCell: one completion cell of src/ring/completion.rs ---
    cell,        \* the heap object Mutex<State>: tag, waker, result, callback
    cellAllocs,  \* number of allocations of the cell (Completion::new)
    freedBy,     \* the parties that deallocated the cell, in order
    completion,  \* TRUE while the submitter owns the Completion handle
    cqe,         \* "none" | "pending" (kernel owes the CQE) | "done" (dispatched)
    wakes,       \* wakes[w]: number of times waker w was woken
    checked,     \* what check returned Ok(...) with, or NoResult
    payload,     \* the Cancellation passed to cancel: kind and handler calls
    released,    \* times the payload's resource was released by the handler
    cellPanic,   \* TRUE once an unreachable!() arm or an assertion stopped the process
    cqeRes,      \* cqe.res of the CQE dispatched for the cell (0 before)
    stray,       \* what complete(cqe) did with the last CQE that carries no cell
                 \* address: "none" | "null" (skipped) | "asserted" | "deref"

    \* --- SpecSub: one Submission (src/submission.rs) and its cell ---
    sState,      \* Submission.state: Waiting, Prepared, Submitted, Complete, Lost
    sPc,         \* where the polling task is: "idle" | "set_waker" (inside
                 \* try_complete, between check() and set_waker())
    sPollWaker,  \* the waker of the current / most recent poll (0: never polled)
    sLastPoll,   \* what the most recent poll returned: "none", "Pending", "Ready"
    sCell,       \* the cell of src/driver/completion.rs: tag, waker, result
    sCellFrees,  \* number of deallocations of the cell
    sEvent,      \* the event: "owned", "returned" (to the caller), "dropped",
                 \* "cancelled" (turned into a Cancellation)
    sEvCancels,  \* calls of Event::cancellation
    sEvDrops,    \* runs of the event's destructor
    sBufFrees,   \* times the event's buffer was freed
    sKernel,     \* the SQE: "none", "prepared" (in the SQ), "inflight", "done"
    sDriverWaker,\* waker the driver registered when it returned Pending (0: none)
    sWoke,       \* the waker dispatch woke (0: none)
    sWokenSincePoll, \* the waker of the most recent poll was woken since it began
    sLastCheck,  \* waker of the most recent poll whose check() saw Submitted
    sDropped,    \* "no", or the state the Submission was dropped in
    sUnlockFreed,\* TRUE once a MutexGuard of an already freed cell was released
    sPanic,      \* TRUE once a poll panicked

    \* --- SpecRing: one Ring handle, its buffers, its cell, its SQE ---
    ring,        \* a record, see InitRing

    \* --- SpecSeg: the submission queue and one SubmissionSegment ---
    sqes,        \* the SQ entry array, indexed 0..ENTRIES-1
    sqe_tail,    \* sq.sqe_tail: entries reserved so far
    khead,       \* *sq.khead: entries the kernel has consumed so far
    seg,         \* the SubmissionSegment handed to the event, see NoSegment
    held,        \* the SQE reference the event holds, see NoHeld
    cells,       \* number of completion cells finish() has allocated
    segOob,      \* TRUE once an entry past the end of the array was touched

    \* --- SpecDrv: one task calling poll_prepare of a demo driver ---
    drv,         \* see NoDriver

    \* --- SpecBuf: one Buffer ---
    buf,         \* see NoBuffer

    \* --- SpecFile: one File on its Ring, and the kernel ---
    file,        \* see NoFile

    \* --- SpecAq: threads calling block and release on one AccessQueue ---
    aq,          \* see NoQueue

    \* --- SpecWake: dispatch of one CQE, step by step, and the task it wakes ---
    wk,          \* see NoWake

    \* --- SpecEng: one Engine polled for one operation after another ---
    eng,         \* see NoEngine

    \* --- SpecDemo: tasks on the demo driver with the access queue, the kernel and the completion thread ---
    demo         \* see NoDemo

cellVars == <<cell, cellAllocs, freedBy, completion, cqe, wakes, checked,
              payload, released, cellPanic, cqeRes, stray>>

subVars == <<sState, sPc, sPollWaker, sLastPoll, sCell, sCellFrees, sEvent,
             sEvCancels, sEvDrops, sBufFrees, sKernel, sDriverWaker, sWoke,
             sWokenSincePoll, sLastCheck, sDropped, sUnlockFreed, sPanic>>

segVars == <<sqes, sqe_tail, khead, seg, held, cells, segOob>>

vars == <<cellVars, subVars, ring, segVars, drv, buf, file, aq, wk, eng, demo>>

\* ------------------------------------------------------------------------
\* src/ring/cancellation.rs: the Cancellation payload
\* ------------------------------------------------------------------------

\* Option<result>: None is the empty tuple, Some(res) the 1-tuple <<res>>
NoResult == <<>>

Some(res) == <<res>>

\* The Cancel implementations a Cancellation can be built from:
\* Box<T> / Box<[T]> / CString, RawFdCancellation with and without a pending
\* close, and () (the null cancellation).
Kinds == {"Box", "Fd", "FdPendingClose", "Null"}

\* CQE::result(): a non-negative raw result is Ok
IsOk(res) == res >= 0

\* io::Result<u32>: Ok(n), or Err(io::Error) with its raw_os_error()
Ok(n) == [ok |-> TRUE, v |-> n]

Err(code) == [ok |-> FALSE, v |-> code]

\* CQE::result(&self) of src/kernel/cqe.rs:
\*   n if n >= 0 => Ok(n as u32), err => Err(io::Error::from_raw_os_error(err))
result(res) == IF res >= 0 THEN Ok(res) ELSE Err(res)

\* -x on an i32, wrapping at the width of the type
neg_i32(x) == IF x = (0 - 2147483647) - 1 THEN x ELSE 0 - x

\* the conversion in Completion::check of src/driver/completion.rs:
\*   true => Ok(result as usize), false => Err(from_raw_os_error(-result))
check_result(res) == IF res >= 0 THEN Ok(res) ELSE Err(neg_i32(res))

\* <T as Cancel>::handle(data, metadata, result): how many times one call of
\* the handler releases (frees or closes) the resource it carries.
\* arg is NoResult (None) or Some(result), result an io::Result<u32>.
HandleReleases(kind, arg) ==
    CASE kind = "Box"            -> 1
      [] kind = "Fd"             -> 1
      [] kind = "FdPendingClose" -> IF arg # NoResult /\ ~arg[1].ok THEN 1 ELSE 0
      [] OTHER                   -> 0

\* impl Drop for Cancellation: (self.handler)(data, metadata, None)
CancellationDrop(p) == [p EXCEPT !.calls = Append(@, NoResult)]

\* Cancellation::handle(self, result) without the implicit drop of self
CancellationHandle_forget(p, res) == [p EXCEPT !.calls = Append(@, Some(res))]

\* Cancellation::handle(self, result): (self.handler)(.., Some(result)); self
\* is taken by value and is not forgotten, so its destructor runs when the
\* function returns.
CancellationHandle(p, res) ==
    CancellationDrop([p EXCEPT !.calls = Append(@, Some(res))])

RECURSIVE SumReleases(_, _)
SumReleases(kind, calls) ==
    IF calls = <<>> THEN 0
    ELSE HandleReleases(kind, Head(calls)) + SumReleases(kind, Tail(calls))

\* ------------------------------------------------------------------------
\* src/ring/completion.rs: the completion cell
\* ------------------------------------------------------------------------

NoCell == [tag |-> "None", waker |-> 0, result |-> NoResult]

InitCell ==
    /\ cell = NoCell
    /\ cellAllocs = 0
    /\ freedBy = <<>>
    /\ completion = FALSE
    /\ cqe = "none"
    /\ wakes = [w \in Wakers |-> 0]
    /\ checked = NoResult
    /\ payload = [kind |-> "none", calls |-> <<>>]
    /\ released = 0
    /\ cellPanic = FALSE
    /\ cqeRes = 0
    /\ stray = "none"

\* drop(ManuallyDrop::into_inner(self.state)): the Box is deallocated
Deallocate(by) ==
    /\ cell' = [cell EXCEPT !.tag = "Freed", !.waker = 0]
    /\ freedBy' = Append(freedBy, by)

\* the unreachable!() arm of cancel, which matches on &*state
Unreachable ==
    /\ cellPanic' = TRUE
    /\ UNCHANGED <<cell, freedBy, completion, cqe, wakes, checked, payload, released>>

\* the unreachable!() arm of check and complete, which match on
\* mem::replace(&mut *state, State::Empty): the cell is left Empty, and the
\* state taken out of it is dropped when the panic unwinds (a Cancelled state
\* drops its Cancellation)
ReplacedUnreachable ==
    /\ cell' = [cell EXCEPT !.tag = "Empty", !.waker = 0, !.result = NoResult]
    /\ cellPanic' = TRUE
    /\ IF cell.tag = "Cancelled" THEN
            /\ payload' = CancellationDrop(payload)
            /\ released' = released + SumReleases(payload.kind, payload'.calls)
       ELSE UNCHANGED <<payload, released>>
    /\ UNCHANGED <<freedBy, completion, cqe, wakes, checked>>

\* Completion::new(waker): Box::new(Mutex::new(Submitted(waker))); the address
\* goes into the SQE, so from here on the kernel owes one CQE for it.
CompletionNew(w) ==
    /\ cell.tag = "None"
    /\ cell' = [tag |-> "Submitted", waker |-> w, result |-> NoResult]
    /\ cellAllocs' = cellAllocs + 1
    /\ completion' = TRUE
    /\ cqe' = "pending"
    /\ UNCHANGED <<freedBy, wakes, checked, payload, released, cellPanic, cqeRes, stray>>

\* check, arm Submitted(old_waker): keep the old waker if it wakes the same
\* task, else store a clone of the new one; Err(self)
CheckSubmitted(w) ==
    /\ cell' = [cell EXCEPT !.waker = IF will_wake(@, w) THEN @ ELSE w]
    /\ UNCHANGED <<freedBy, completion, cqe, wakes, checked, payload, released, cellPanic>>

\* check, arm Completed(result): deallocate, Ok(result)
CheckCompleted ==
    /\ Deallocate("check")
    /\ checked' = cell.result
    /\ completion' = FALSE
    /\ UNCHANGED <<cqe, wakes, payload, released, cellPanic>>

\* Completion::check(self, waker)
Check(w) ==
    /\ completion
    /\ ~cellPanic
    /\ UNCHANGED <<cellAllocs, cqeRes, stray>>
    /\ IF cell.tag = "Submitted" THEN CheckSubmitted(w)
       ELSE IF cell.tag = "Completed" THEN CheckCompleted
       ELSE ReplacedUnreachable

\* a cancel arm that wakes the waker it replaces
CancelSubmitted_wakes(kind) ==
    /\ cell' = [cell EXCEPT !.tag = "Cancelled", !.waker = 0]
    /\ payload' = [kind |-> kind, calls |-> <<>>]
    /\ completion' = FALSE
    /\ wakes' = [wakes EXCEPT ![cell.waker] = @ + 1]
    /\ UNCHANGED <<freedBy, cqe, checked, released, cellPanic>>

\* cancel, arm Submitted(_): *state = Cancelled(callback)
CancelSubmitted(kind) ==
    /\ cell' = [cell EXCEPT !.tag = "Cancelled", !.waker = 0]
    /\ payload' = [kind |-> kind, calls |-> <<>>]
    /\ completion' = FALSE
    /\ UNCHANGED <<freedBy, cqe, wakes, checked, released, cellPanic>>

\* a cancel arm that forgets to deallocate the cell
CancelCompleted_leak(kind) ==
    /\ payload' = CancellationDrop([kind |-> kind, calls |-> <<>>])
    /\ released' = released + SumReleases(kind, payload'.calls)
    /\ completion' = FALSE
    /\ UNCHANGED <<cell, freedBy, cqe, wakes, checked, cellPanic>>

\* cancel, arm Completed(_): drop(callback); deallocate
CancelCompleted(kind) ==
    /\ payload' = CancellationDrop([kind |-> kind, calls |-> <<>>])
    /\ released' = released + SumReleases(kind, payload'.calls)
    /\ Deallocate("cancel")
    /\ completion' = FALSE
    /\ UNCHANGED <<cqe, wakes, checked, cellPanic>>

\* a cancel that waits until the kernel has dispatched the operation
Cancel_waits(kind) ==
    /\ completion
    /\ ~cellPanic
    /\ cqe = "done"
    /\ UNCHANGED <<cellAllocs, cqeRes, stray>>
    /\ IF cell.tag = "Submitted" THEN CancelSubmitted(kind)
       ELSE IF cell.tag = "Completed" THEN CancelCompleted(kind)
       ELSE Unreachable

\* Completion::cancel(self, callback)
Cancel(kind) ==
    /\ completion
    /\ ~cellPanic
    /\ UNCHANGED <<cellAllocs, cqeRes, stray>>
    /\ IF cell.tag = "Submitted" THEN CancelSubmitted(kind)
       ELSE IF cell.tag = "Completed" THEN CancelCompleted(kind)
       ELSE Unreachable

\* complete, arm Submitted(waker): *state = Completed(result); waker.wake()
CompleteSubmitted(res) ==
    /\ cell' = [cell EXCEPT !.tag = "Completed", !.result = Some(res), !.waker = 0]
    /\ wakes' = [wakes EXCEPT ![cell.waker] = @ + 1]
    /\ cqe' = "done"
    /\ UNCHANGED <<freedBy, completion, checked, payload, released, cellPanic>>

\* complete, arm Cancelled(callback): callback.handle(result); deallocate
CompleteCancelled(res) ==
    /\ payload' = CancellationHandle(payload, res)
    /\ released' = released + SumReleases(payload.kind, payload'.calls)
    /\ Deallocate("complete")
    /\ cqe' = "done"
    /\ UNCHANGED <<completion, wakes, checked, cellPanic>>

\* complete(cqe) -> Completion::complete(self, result), for the CQE that
\* carries this cell's address
Complete(res) ==
    /\ cqe = "pending"
    /\ ~cellPanic
    /\ UNCHANGED <<cellAllocs, stray>>
    /\ IF cell.tag = "Submitted" THEN
            CompleteSubmitted(result(res)) /\ cqeRes' = res
       ELSE IF cell.tag = "Cancelled" THEN
            CompleteCancelled(result(res)) /\ cqeRes' = res
       ELSE ReplacedUnreachable /\ UNCHANGED cqeRes

\* complete(cqe) for a second CQE that carries the address of the cell while
\* the cell, already Completed by the first, is still allocated: the `_` arm
\* of Completion::complete
CompleteDuplicate(res) ==
    /\ cqe = "done"
    /\ cell.tag = "Completed"
    /\ ~cellPanic
    /\ ReplacedUnreachable
    /\ UNCHANGED <<cellAllocs, cqeRes, stray>>

\* user_data values of a CQE that belongs to no Completion: null, and
\* LIBURING_UDATA_TIMEOUT, which liburing puts on its internal timeouts
StrayUserData == {"null", "timeout"}
Builds == {"debug", "release"}

\* complete(cqe) for a CQE whose user_data is not the address of a cell. Null
\* is skipped by the is_null test. For LIBURING_UDATA_TIMEOUT there is only a
\* debug_assert!: a debug build stops there, a release build goes on to
\* Box::from_raw(user_data) and locks the Mutex<State> it takes to be there.
CompleteStray(ud, build) ==
    /\ ~cellPanic
    /\ IF ud = "null" THEN
            /\ stray' = "null"
            /\ UNCHANGED cellPanic
       ELSE IF build = "debug" THEN
            /\ stray' = "asserted"
            /\ cellPanic' = TRUE
       ELSE
            /\ stray' = "deref"
            /\ cellPanic' = TRUE
    /\ UNCHANGED <<cell, cellAllocs, freedBy, completion, cqe, wakes, checked,
                   payload, released, cqeRes>>


\* ------------------------------------------------------------------------
\* src/driver/completion.rs: the cell a Submission polls
\* ------------------------------------------------------------------------

InitSub ==
    /\ sState = "Waiting"
    /\ sPc = "idle"
    /\ sPollWaker = 0
    /\ sLastPoll = "none"
    /\ sCell = NoCell
    /\ sCellFrees = 0
    /\ sEvent = "owned"
    /\ sEvCancels = 0
    /\ sEvDrops = 0
    /\ sBufFrees = 0
    /\ sKernel = "none"
    /\ sDriverWaker = 0
    /\ sWoke = 0
    /\ sWokenSincePoll = FALSE
    /\ sLastCheck = 0
    /\ sDropped = "no"
    /\ sUnlockFreed = FALSE
    /\ sPanic = FALSE

\* Completion::check(&self): Some(result) iff the state is Completed, the
\* raw result converted to an io::Result
sub_check(c) ==
    IF c.tag = "Completed" THEN Some(check_result(c.result[1])) ELSE NoResult

\* Completion::deallocate(&self): the polling side frees the cell it has
\* read the result from
deallocate(c) == [c EXCEPT !.tag = "Freed"]

\* Completion::set_waker(&mut self, waker): replaces the slot only in Submitted
set_waker(c, w) == IF c.tag = "Submitted" THEN [c EXCEPT !.waker = w] ELSE c

\* Cancellation::cancel(&mut self) of src/event/cancellation.rs: runs the
\* callback, which frees the buffer the event lent to the kernel
callback_cancel == sBufFrees' = sBufFrees + 1

\* a cancel that forgets the callback instead of attaching it to the cell
sub_cancel_forgets ==
    UNCHANGED <<sCell, sCellFrees, sUnlockFreed, sBufFrees>>

\* Completion::cancel(&self, callback)
sub_cancel ==
    IF sCell.tag = "Completed" THEN
        \* drop(Box::from_raw(self)) with the guard still held; callback.cancel()
        /\ sCell' = [sCell EXCEPT !.tag = "Freed"]
        /\ sCellFrees' = sCellFrees + 1
        /\ sUnlockFreed' = TRUE
        /\ callback_cancel
    ELSE
        /\ sCell' = [sCell EXCEPT !.tag = "Cancelled", !.waker = 0]
        /\ UNCHANGED <<sCellFrees, sUnlockFreed, sBufFrees>>

\* complete(cqe): the CQ reader dispatches the CQE of this Submission's SQE
Dispatch(res) ==
    /\ sKernel = "inflight"
    /\ sKernel' = "done"
    /\ IF sCell.tag = "Submitted" THEN
            /\ sCell' = [sCell EXCEPT !.tag = "Completed", !.result = Some(res),
                                      !.waker = 0]
            /\ sWoke' = sCell.waker
            /\ sWokenSincePoll' = (sWokenSincePoll \/ will_wake(sCell.waker, sPollWaker))
            /\ UNCHANGED <<sCellFrees, sBufFrees, sUnlockFreed, sPanic>>
       ELSE IF sCell.tag = "Cancelled" THEN
            \* drop(Box::from_raw(completion)) with the guard still held;
            \* callback.cancel()
            /\ sCell' = [sCell EXCEPT !.tag = "Freed", !.result = Some(res)]
            /\ sCellFrees' = sCellFrees + 1
            /\ sUnlockFreed' = TRUE
            /\ callback_cancel
            /\ UNCHANGED <<sWoke, sWokenSincePoll, sPanic>>
       ELSE
            /\ sPanic' = TRUE
            /\ UNCHANGED <<sCell, sCellFrees, sBufFrees, sUnlockFreed, sWoke,
                           sWokenSincePoll>>
    /\ UNCHANGED <<sState, sPc, sPollWaker, sLastPoll, sEvent, sEvCancels,
                   sEvDrops, sDriverWaker, sLastCheck, sDropped>>

\* ------------------------------------------------------------------------
\* src/submission.rs: the Submission future
\* ------------------------------------------------------------------------

\* What the driver answers to one poll (src/drive/mod.rs, trait Drive):
\* poll_prepare returns Pending, or runs the callback and returns its
\* Completion ("lost": runs it and does not return it); poll_submit returns
\* Pending, Ready(Ok) or Ready(Err).
PrepareOutcomes == {"pending", "ready", "lost"}
SubmitOutcomes == {"pending", "ok", "err"}

\* a try_submit that marks the operation complete as soon as it is submitted
try_submit_jumps(st, kern, w, sub) ==
    [state  |-> IF sub = "pending" THEN st ELSE "Complete",
     kernel |-> IF sub = "ok" /\ kern = "prepared" THEN "inflight" ELSE kern,
     driverWaker |-> IF sub = "pending" THEN w ELSE 0]

\* try_submit: state becomes Submitted when poll_submit is Ready, whatever
\* its result; a successful eager submit hands the SQ to the kernel.
try_submit(st, kern, w, sub) ==
    [state  |-> IF sub = "pending" THEN st ELSE "Submitted",
     kernel |-> IF sub = "ok" /\ kern = "prepared" THEN "inflight" ELSE kern,
     driverWaker |-> IF sub = "pending" THEN w ELSE 0]

\* a poll in state Waiting whose prepare callback does not set the state to
\* Lost: after a faulty driver the Submission is still Waiting
PollWaiting_noLost(w, prep, sub) ==
    /\ sPollWaker' = w
    /\ sLastPoll' = "Pending"
    /\ sWokenSincePoll' = FALSE
    /\ sPc' = "idle"
    /\ IF prep = "pending" THEN
            /\ sDriverWaker' = w
            /\ UNCHANGED <<sState, sCell, sKernel>>
       ELSE IF prep = "lost" THEN
            \* prepare() ran: the SQE is filled, the cell exists, state = Lost
            /\ sState' = "Waiting"
            /\ sCell' = [tag |-> "Submitted", waker |-> w, result |-> NoResult]
            /\ sKernel' = "prepared"
            /\ sDriverWaker' = 0
       ELSE
            LET t == try_submit("Prepared", "prepared", w, sub) IN
            /\ sState' = t.state
            /\ sCell' = [tag |-> "Submitted", waker |-> w, result |-> NoResult]
            /\ sKernel' = t.kernel
            /\ sDriverWaker' = t.driverWaker
    /\ UNCHANGED <<sCellFrees, sEvent, sEvCancels, sEvDrops, sBufFrees, sWoke,
                   sLastCheck, sDropped, sUnlockFreed, sPanic>>

\* poll in state Waiting: try_prepare, then try_submit, then Pending
PollWaiting(w, prep, sub) ==
    /\ sPollWaker' = w
    /\ sLastPoll' = "Pending"
    /\ sWokenSincePoll' = FALSE
    /\ sPc' = "idle"
    /\ IF prep = "pending" THEN
            /\ sDriverWaker' = w
            /\ UNCHANGED <<sState, sCell, sKernel>>
       ELSE IF prep = "lost" THEN
            \* prepare() ran: the SQE is filled, the cell exists, state = Lost
            /\ sState' = "Lost"
            /\ sCell' = [tag |-> "Submitted", waker |-> w, result |-> NoResult]
            /\ sKernel' = "prepared"
            /\ sDriverWaker' = 0
       ELSE
            LET t == try_submit("Prepared", "prepared", w, sub) IN
            /\ sState' = t.state
            /\ sCell' = [tag |-> "Submitted", waker |-> w, result |-> NoResult]
            /\ sKernel' = t.kernel
            /\ sDriverWaker' = t.driverWaker
    /\ UNCHANGED <<sCellFrees, sEvent, sEvCancels, sEvDrops, sBufFrees, sWoke,
                   sLastCheck, sDropped, sUnlockFreed, sPanic>>

\* try_complete, first half: this.completion.check(); on Some(result) the
\* state becomes Complete, the cell is deallocated and the event moved out.
PollCheck(w) ==
    /\ sPollWaker' = w
    /\ IF sub_check(sCell) # NoResult THEN
            /\ sState' = "Complete"
            /\ sCell' = deallocate(sCell)
            /\ sCellFrees' = sCellFrees + 1
            /\ sEvent' = "returned"
            /\ sLastPoll' = "Ready"
            /\ sPc' = "idle"
            /\ UNCHANGED <<sLastCheck, sWokenSincePoll>>
       ELSE
            /\ sPc' = "set_waker"
            /\ sLastCheck' = IF sCell.tag = "Submitted" THEN w ELSE sLastCheck
            /\ sWokenSincePoll' = FALSE
            /\ UNCHANGED <<sState, sCell, sCellFrees, sEvent, sLastPoll>>
    /\ UNCHANGED <<sEvCancels, sEvDrops, sBufFrees, sKernel, sDriverWaker, sWoke,
                   sDropped, sUnlockFreed, sPanic>>

\* a poll without the Complete arm: a completed Submission tries to complete
\* again
Poll_again(w) ==
    /\ sPc = "idle"
    /\ sDropped = "no"
    /\ IF sState = "Waiting" THEN
            \E prep \in PrepareOutcomes, sub \in SubmitOutcomes :
                PollWaiting(w, prep, sub)
       ELSE IF sState \in {"Prepared", "Submitted", "Complete"} THEN
            PollCheck(w)
       ELSE
            /\ sPanic' = TRUE
            /\ UNCHANGED <<sState, sPc, sPollWaker, sLastPoll, sCell, sCellFrees,
                           sEvent, sEvCancels, sEvDrops, sBufFrees, sKernel,
                           sDriverWaker, sWoke, sWokenSincePoll, sLastCheck,
                           sDropped, sUnlockFreed>>

\* Future::poll, entered by the task with the waker of its context
Poll(w) ==
    /\ sPc = "idle"
    /\ sDropped = "no"
    /\ IF sState = "Waiting" THEN
            \E prep \in PrepareOutcomes, sub \in SubmitOutcomes :
                PollWaiting(w, prep, sub)
       ELSE IF sState \in {"Prepared", "Submitted"} THEN
            PollCheck(w)
       ELSE
            \* Complete: polled after completion; Lost: the driver is faulty
            /\ sPanic' = TRUE
            /\ UNCHANGED <<sState, sPc, sPollWaker, sLastPoll, sCell, sCellFrees,
                           sEvent, sEvCancels, sEvDrops, sBufFrees, sKernel,
                           sDriverWaker, sWoke, sWokenSincePoll, sLastCheck,
                           sDropped, sUnlockFreed>>

\* try_complete, second half: this.completion.set_waker(ctx.waker().clone()),
\* Pending; in state Prepared the poll goes on with try_submit.
PollSetWaker(sub) ==
    /\ sPc = "set_waker"
    /\ sPc' = "idle"
    /\ sCell' = set_waker(sCell, sPollWaker)
    /\ sLastPoll' = "Pending"
    /\ IF sState = "Prepared" THEN
            LET t == try_submit(sState, sKernel, sPollWaker, sub) IN
            /\ sState' = t.state
            /\ sKernel' = t.kernel
            /\ sDriverWaker' = t.driverWaker
       ELSE
            /\ sub = "ok"
            /\ UNCHANGED <<sState, sKernel, sDriverWaker>>
    /\ UNCHANGED <<sPollWaker, sCellFrees, sEvent, sEvCancels, sEvDrops,
                   sBufFrees, sWoke, sWokenSincePoll, sLastCheck, sDropped,
                   sUnlockFreed, sPanic>>

\* a Drop that runs the event's destructor although the kernel holds its buffer
SubDrop_dropsEvent ==
    /\ sPc = "idle"
    /\ sDropped = "no"
    /\ sDropped' = sState
    /\ IF sState \in {"Waiting", "Prepared", "Submitted"} THEN
            /\ sEvent' = "dropped"
            /\ sEvDrops' = sEvDrops + 1
            /\ sBufFrees' = sBufFrees + 1
            /\ UNCHANGED <<sCell, sCellFrees, sUnlockFreed, sEvCancels>>
       ELSE
            UNCHANGED <<sEvent, sEvCancels, sEvDrops, sBufFrees, sCell,
                        sCellFrees, sUnlockFreed>>
    /\ UNCHANGED <<sState, sPc, sPollWaker, sLastPoll, sKernel, sDriverWaker,
                   sWoke, sWokenSincePoll, sLastCheck, sPanic>>

\* impl Drop for Submission
SubDrop ==
    /\ sPc = "idle"
    /\ sDropped = "no"
    /\ sDropped' = sState
    /\ IF sState \in {"Prepared", "Submitted"} THEN
            \* self.completion.cancel(Event::cancellation(&mut self.event))
            /\ sEvent' = "cancelled"
            /\ sEvCancels' = sEvCancels + 1
            /\ sub_cancel
            /\ UNCHANGED sEvDrops
       ELSE IF sState = "Waiting" THEN
            \* ManuallyDrop::drop(&mut self.event)
            /\ sEvent' = "dropped"
            /\ sEvDrops' = sEvDrops + 1
            /\ sBufFrees' = sBufFrees + 1
            /\ UNCHANGED <<sCell, sCellFrees, sUnlockFreed, sEvCancels>>
       ELSE
            UNCHANGED <<sEvent, sEvCancels, sEvDrops, sBufFrees, sCell,
                        sCellFrees, sUnlockFreed>>
    /\ UNCHANGED <<sState, sPc, sPollWaker, sLastPoll, sKernel, sDriverWaker,
                   sWoke, sWokenSincePoll, sLastCheck, sPanic>>

\* Somebody (this task's later poll_submit, another task sharing the driver,
\* the driver itself when its queue is full) submits the SQ to the kernel.
DriverSubmits ==
    /\ sKernel = "prepared"
    /\ sKernel' = "inflight"
    /\ UNCHANGED <<sState, sPc, sPollWaker, sLastPoll, sCell, sCellFrees, sEvent,
                   sEvCancels, sEvDrops, sBufFrees, sDriverWaker, sWoke,
                   sWokenSincePoll, sLastCheck, sDropped, sUnlockFreed, sPanic>>

\* ------------------------------------------------------------------------
\* The Ring handles: src/ring.rs (buffer behind a raw pointer, allocated
\* lazily) and src/ring/mod.rs (buffer in a Box<[u8]> field, AsyncRead only)
\* ------------------------------------------------------------------------

BufIds == 1..MaxBufs

\* A Cancellation is <<b>>: Cancellation::buffer(data, len) on buffer b, where
\* b = 0 is the null pointer; Cancellation::null() is <<-1>>.
NullCancellation == <<0 - 1>>
NoCallback == <<>>

NewRing(impl) ==
    [impl       |-> impl,        \* "raw": src/ring.rs, "boxed": src/ring/mod.rs
     state      |-> "Inert",
     current    |-> "Nothing",
     completion |-> FALSE,       \* the handle holds Some(completion)
     cell       |-> "None",      \* None, Submitted, Completed, Cancelled, Freed
     result     |-> NoResult,
     callback   |-> NoCallback,  \* the Cancellation stored in a Cancelled cell
     data       |-> IF impl = "boxed" THEN 1 ELSE 0,  \* buf.data, 0 is null
     allocs     |-> IF impl = "boxed" THEN 1 ELSE 0,  \* buffers allocated so far
     frees      |-> [b \in BufIds |-> 0],             \* deallocations per buffer
     nullFreed  |-> FALSE,       \* the null pointer was deallocated
     unread     |-> FALSE,       \* buf.consumed < buf.read
     written    |-> FALSE,       \* buf.written # 0
     kernel     |-> "none",      \* the SQE: none, prepared, inflight, done
     kbuf       |-> 0,           \* the buffer the SQE points to, 0 if none
     cellAllocs |-> 0,
     cellFrees  |-> 0,
     ioDrops    |-> 0,
     dropped    |-> "no",        \* or the state the handle was dropped in
     dropBuf    |-> 0,           \* the buffer the kernel held when it was dropped
     lastPoll   |-> "none",      \* what the last poll returned: Pending, Ready
     registered |-> FALSE,       \* the last poll left a waker with the driver
                                 \* or in the cell the handle holds
     pollTick   |-> FALSE,       \* flips at every Engine/Ring poll
     submitErr  |-> FALSE,       \* poll_submit returned Ready(Err) for the
                                 \* operation prepared last
     panic      |-> FALSE]

InitRing == ring \in {NewRing("raw"), NewRing("boxed")}

\* dealloc / drop(Vec::from_raw_parts(..)) of buffer b
free(r, b) ==
    IF b = 0 THEN [r EXCEPT !.nullFreed = TRUE]
    ELSE [r EXCEPT !.frees[b] = @ + 1]

\* Cancellation::cancel(&mut self) of src/event/cancellation.rs
run_callback(r, cb) == IF cb = NullCancellation THEN r ELSE free(r, cb[1])

\* Completion::cancel on the cell the handle held
completion_cancel(r, cb) ==
    IF r.cell = "Completed"
    THEN run_callback([r EXCEPT !.cell = "Freed", !.cellFrees = @ + 1], cb)
    ELSE [r EXCEPT !.cell = "Cancelled", !.callback = cb]

\* if let Some(completion) = self.completion.take() { completion.cancel(c) }
\* else { c.cancel() }
engine_cancel(r, cb) ==
    IF r.completion
    THEN completion_cancel([r EXCEPT !.completion = FALSE], cb)
    ELSE run_callback(r, cb)

\* Buffer::lazy_alloc
lazy_alloc(r) ==
    IF r.data = 0 THEN [r EXCEPT !.allocs = @ + 1, !.data = r.allocs + 1] ELSE r

\* a cancel that also resets the state, so that the next poll prepares anew
ring_cancel_resets(r) ==
    IF r.current \in {"Read", "Write"} THEN
        [engine_cancel([r EXCEPT !.data = 0], <<r.data>>)
            EXCEPT !.current = "Nothing", !.state = "Inert"]
    ELSE r

\* Ring::cancel of src/ring.rs; Buffer::cancellation takes the pointer out of
\* the Buffer (mem::replace(&mut self.data, null))
ring_cancel(r) ==
    IF r.current \in {"Read", "Write"} THEN
        [engine_cancel([r EXCEPT !.data = 0], <<r.data>>) EXCEPT !.current = "Nothing"]
    ELSE IF r.current = "Close" THEN
        IF r.completion
        THEN completion_cancel([r EXCEPT !.completion = FALSE], NullCancellation)
        ELSE r
    ELSE r

\* try_submit: poll_submit Ready(_) makes the state Submitted
\* a try_submit that returns from the poll on a submit error and leaves the
\* state as it was
ring_try_submit_stays(r, sub) ==
    IF sub = "pending" THEN r
    ELSE IF sub = "err" THEN [r EXCEPT !.submitErr = TRUE]
    ELSE [r EXCEPT !.state = "Submitted",
                   !.kernel = IF @ = "prepared" THEN "inflight" ELSE @]

ring_try_submit(r, sub) ==
    IF sub = "pending" THEN r
    ELSE [r EXCEPT !.state = "Submitted",
                   !.submitErr = @ \/ sub = "err",
                   !.kernel = IF sub = "ok" /\ @ = "prepared" THEN "inflight" ELSE @]

\* try_prepare: the callback fills the SQE (a read or write lends the buffer)
\* and allocates the cell
ring_try_prepare(r, op) ==
    LET r1 == IF op = "Close" THEN r ELSE lazy_alloc(r) IN
    [r1 EXCEPT !.state = "Prepared", !.completion = TRUE, !.cell = "Submitted",
               !.result = NoResult, !.callback = NoCallback,
               !.submitErr = FALSE,
               !.cellAllocs = @ + 1, !.kernel = "prepared",
               !.kbuf = IF op = "Close" THEN 0 ELSE r1.data]

\* a try_complete that reports the result and keeps the cell
ring_try_complete_keeps(r) ==
    IF r.completion /\ r.cell = "Completed"
    THEN [r |-> r, out |-> r.result]
    ELSE [r |-> r, out |-> NoResult]

\* try_complete: Some(result) only if the handle still holds a completion and
\* its cell is Completed
ring_try_complete(r) ==
    IF r.completion /\ r.cell = "Completed"
    THEN [r   |-> [r EXCEPT !.state = "Inert", !.completion = FALSE,
                            !.cell = "Freed", !.cellFrees = @ + 1],
          out |-> r.result]
    ELSE [r |-> r, out |-> NoResult]

\* the match of poll: [r |-> the handle afterwards, out |-> <<result>> if
\* Ready, reg |-> a waker was left behind]. poll_prepare and poll_submit leave
\* the waker with the driver when they return Pending, Completion::new and
\* set_waker leave it in the cell; try_complete has no cell to leave it in
\* when self.completion is None.
ring_poll_match(r, op, prep, sub) ==
    IF r.state = "Inert" THEN
        IF prep = "pending" THEN [r |-> r, out |-> NoResult, reg |-> TRUE]
        ELSE [r |-> ring_try_submit(ring_try_prepare(r, op), sub), out |-> NoResult,
              reg |-> TRUE]
    ELSE IF r.state = "Prepared" THEN
        LET c == ring_try_complete(r) IN
        IF c.out # NoResult THEN [r |-> c.r, out |-> c.out, reg |-> FALSE]
        ELSE [r |-> ring_try_submit(r, sub), out |-> NoResult,
              reg |-> r.completion \/ sub = "pending"]
    ELSE IF r.state = "Submitted" THEN
        LET c == ring_try_complete(r) IN
        [r |-> c.r, out |-> c.out, reg |-> c.out = NoResult /\ r.completion]
    ELSE [r |-> [r EXCEPT !.panic = TRUE], out |-> NoResult, reg |-> FALSE]

\* poll: [r |-> the handle afterwards, out |-> <<result>> if Ready]
ring_poll(r, op, prep, sub) ==
    LET m == ring_poll_match(r, op, prep, sub) IN
    [r   |-> [m.r EXCEPT !.pollTick = ~@, !.registered = m.reg,
                         !.lastPoll = IF m.r.panic THEN @
                                      ELSE IF m.out = NoResult THEN "Pending"
                                      ELSE "Ready"],
     out |-> m.out]

\* The handle is switched to operation op: an operation of another kind that
\* is still current is cancelled first (src/ring.rs only; the Ring of
\* src/ring/mod.rs reads only and keeps no `current`).
ring_switch(r, op) ==
    IF r.impl = "boxed" THEN r
    ELSE [(IF r.current \notin {op, "Nothing"} THEN ring_cancel(r) ELSE r)
            EXCEPT !.current = op]

RingLive == ring.dropped = "no" /\ ~ring.panic

\* the bounds of the exploration: buffers allocated, operations prepared
RingBounded(r) == r.allocs <= MaxBufs /\ r.cellAllocs <= MaxOps

\* AsyncBufRead::poll_fill_buf
RingPollFillBuf(prep, sub) ==
    /\ RingLive
    /\ LET r1 == ring_switch(ring, "Read")
           p  == ring_poll(r1, "Read", prep, sub)
           new == IF r1.unread THEN [lazy_alloc(r1) EXCEPT !.lastPoll = "Ready"]
                  ELSE IF p.out = NoResult THEN p.r
                  ELSE IF ~IsOk(p.out[1]) THEN p.r
                  ELSE lazy_alloc([p.r EXCEPT !.unread = p.out[1] > 0])
       IN  /\ RingBounded(new)
           /\ ring' = new

\* AsyncBufRead::consume
RingConsume(all) ==
    /\ RingLive
    /\ ring.unread
    /\ ring' = [ring EXCEPT !.unread = ~all]

\* AsyncWrite::poll_write (src/ring.rs)
RingPollWrite(nonempty, prep, sub) ==
    /\ RingLive
    /\ ring.impl = "raw"
    /\ LET r1 == ring_switch(ring, "Write")
           r2 == IF r1.written THEN r1
                 ELSE [lazy_alloc(r1) EXCEPT !.written = nonempty]
           p  == ring_poll(r2, "Write", prep, sub)
           new == IF p.out = NoResult THEN p.r ELSE [p.r EXCEPT !.written = FALSE]
       IN  /\ RingBounded(new)
           /\ ring' = new

\* AsyncWrite::poll_close (src/ring.rs)
RingPollClose(prep, sub) ==
    /\ RingLive
    /\ ring.impl = "raw"
    /\ LET new == ring_poll(ring_switch(ring, "Close"), "Close", prep, sub).r
       IN  /\ RingBounded(new)
           /\ ring' = new

\* the SQ holding the handle's SQE is submitted to the kernel
RingDriverSubmits ==
    /\ ring.kernel = "prepared"
    /\ ring' = [ring EXCEPT !.kernel = "inflight"]

\* complete(cqe) for the handle's SQE
RingDispatch(res) ==
    /\ ring.kernel = "inflight"
    /\ ring' =
        IF ring.cell = "Submitted" THEN
            [ring EXCEPT !.kernel = "done", !.cell = "Completed", !.result = Some(res)]
        ELSE IF ring.cell = "Cancelled" THEN
            run_callback([ring EXCEPT !.kernel = "done", !.cell = "Freed",
                                      !.cellFrees = @ + 1], ring.callback)
        ELSE [ring EXCEPT !.kernel = "done", !.panic = TRUE]

\* impl Drop for Buffer of src/ring.rs: dealloc unless the pointer is null
buffer_drop(r) == IF r.data # 0 THEN free(r, r.data) ELSE r

\* impl Drop for Ring of src/ring/mod.rs, then the destructors of its fields:
\* the Cancellation gets the raw pointer of buf.buf, which stays in the Ring
\* and is freed as a Box<[u8]> when the fields are dropped
ring_mod_drop(r) ==
    LET r1 == engine_cancel(r, <<r.data>>) IN
    [free(r1, r1.data) EXCEPT !.ioDrops = @ + 1]

\* impl Drop for Ring of src/ring.rs, then the destructor of its Buffer
ring_rs_drop(r) ==
    buffer_drop(IF r.current = "Nothing"
                THEN [r EXCEPT !.ioDrops = @ + 1]
                ELSE ring_cancel(r))

RingDrop ==
    /\ ring.dropped = "no"
    /\ LET lent == IF ring.kernel \in {"prepared", "inflight"} /\ ring.completion
                   THEN ring.kbuf ELSE 0
           r == [ring EXCEPT !.dropped = ring.state, !.dropBuf = lent]
       IN ring' = IF ring.impl = "boxed" THEN ring_mod_drop(r) ELSE ring_rs_drop(r)

\* ------------------------------------------------------------------------
\* src/kernel: SubmissionQueue, SubmissionSegment, HardLinked, SQE
\* ------------------------------------------------------------------------

\* flag words are sets of bit numbers: & is \cap, | is \cup, ! is the complement
FlagBits == 0..7
IOSQE_IO_LINK == {2}
IOSQE_IO_HARDLINK == {3}

\* an io_uring_sqe: opcode, flags, user_data, and for a cancel the user_data
\* of the operation to cancel
ZeroSQE == [op |-> "zero", flags |-> {}, user_data |-> 0, target |-> 0]

NoSegment == [stage |-> "none", first |-> 0, n |-> 0, head |-> 0, remaining |-> 0,
              last |-> 0 - 1, addr |-> 0, hl |-> {}]
NoHeld == [kind |-> "none", idx |-> 0 - 1, is_final |-> FALSE, prepped |-> FALSE]

InitSeg ==
    /\ sqes = [i \in 0..(ENTRIES - 1) |-> ZeroSQE]
    /\ sqe_tail = 0
    /\ khead = 0
    /\ seg = NoSegment
    /\ held = NoHeld
    /\ cells = 0
    /\ segOob = FALSE

\* The operators below work on st = [sqes, seg, oob]. An entry past the end of
\* the array is outside the mapping the kernel reads: a write to it is lost to
\* the queue and a read of it yields no entry of the queue.
InArray(i) == i \in 0..(ENTRIES - 1)
get(st, i) == IF InArray(i) THEN st.sqes[i] ELSE ZeroSQE
put(st, i, e) ==
    IF InArray(i) THEN [st EXCEPT !.sqes[i] = e] ELSE [st EXCEPT !.oob = TRUE]

\* SQE::from_raw: sqe.user_data = 0
from_raw(st, i) == put(st, i, [get(st, i) EXCEPT !.user_data = 0])

\* SQE::set_completion
set_completion(st, i, a) == put(st, i, [get(st, i) EXCEPT !.user_data = a])

\* io_uring_prep_*: every prep helper rewrites the whole entry, flags and
\* user_data included
io_uring_prep(st, i, op, target) ==
    put(st, i, [op |-> op, flags |-> {}, user_data |-> 0, target |-> target])

\* SQE::prep_nop
prep_nop(st, i) == io_uring_prep(st, i, "nop", 0)

\* SQE::prep_cancel(user_data, flags)
prep_cancel(st, i, a) == io_uring_prep(st, i, "cancel", a)

\* SQE::set_flag: self.inner.flags &= flag
set_flag(st, i, flag) == put(st, i, [get(st, i) EXCEPT !.flags = @ \cap flag])

\* SQE::unset_flag: self.inner.flags &= !flag
unset_flag(st, i, flag) ==
    put(st, i, [get(st, i) EXCEPT !.flags = @ \cap (FlagBits \ flag)])

\* SubmissionSegment::consume: [st, out], out = -1 for None
consume(st) ==
    IF st.seg.remaining > 1 THEN
        LET old == st.seg.head
            st1 == [st EXCEPT !.seg.head = old + 1, !.seg.remaining = @ - 1]
        IN [st |-> prep_nop(from_raw(st1, old), old), out |-> old]
    ELSE IF st.seg.remaining = 1 THEN
        LET st1 == [st EXCEPT !.seg.remaining = 0]
        IN [st |-> from_raw(st1, st.seg.head), out |-> st.seg.head]
    ELSE [st |-> st, out |-> 0 - 1]

\* while self.consume().is_some() { }
RECURSIVE consume_all(_)
consume_all(st) ==
    LET c == consume(st) IN IF c.out = 0 - 1 THEN st ELSE consume_all(c.st)

\* SubmissionSegment::singular
singular(st) ==
    LET st1 == consume_all(st) IN
    [st |-> from_raw(st1, st1.seg.head), out |-> st1.seg.head]

\* HardLinked::next: [st, out, is_final]
hard_linked_next(st) ==
    LET c == consume(st) IN
    [st |-> c.st, out |-> c.out, is_final |-> st.seg.remaining > 1]

\* Drop for HardLinkedSQE
hard_linked_sqe_drop(st, h) ==
    IF ~h.is_final THEN set_flag(st, h.idx, IOSQE_IO_HARDLINK) ELSE st

\* SubmissionSegment::finish with the address a of the new completion cell
finish(st, a) ==
    LET st1 == set_completion(from_raw(st, st.seg.head), st.seg.head, a)
        st2 == IF st1.seg.remaining # 0
               THEN consume_all(put(st1, st1.seg.head,
                        [get(st1, st1.seg.head) EXCEPT
                            !.flags = @ \cap (FlagBits \ (IOSQE_IO_LINK \cap IOSQE_IO_HARDLINK))]))
               ELSE st1
    IN [st2 EXCEPT !.seg.stage = "finished", !.seg.addr = a]

SegState == [sqes |-> sqes, seg |-> seg, oob |-> segOob]

SegUpdate(st) ==
    /\ sqes' = st.sqes
    /\ seg' = st.seg
    /\ segOob' = st.oob

\* SubmissionQueue::prepare(n): the driver reserves n entries for an event
SqPrepare(n) ==
    /\ seg.stage # "reserved"
    /\ sqe_tail + n <= MaxTail
    /\ IF (sqe_tail + n) - khead <= ENTRIES THEN
            /\ sqe_tail' = sqe_tail + n
            /\ seg' = [NoSegment EXCEPT !.stage = "reserved",
                                        !.first = sqe_tail % ENTRIES,
                                        !.head = sqe_tail % ENTRIES,
                                        !.n = n, !.remaining = n]
       ELSE
            /\ seg' = NoSegment
            /\ UNCHANGED sqe_tail
    /\ UNCHANGED <<sqes, khead, held, cells, segOob>>

\* the event calls sqs.singular()
EvSingular ==
    /\ seg.stage = "reserved"
    /\ held.kind # "hard_linked"
    /\ LET c == singular(SegState) IN
        /\ SegUpdate([c.st EXCEPT !.seg.last = c.out])
        /\ held' = [kind |-> "singular", idx |-> c.out, is_final |-> FALSE,
                    prepped |-> FALSE]
    /\ UNCHANGED <<sqe_tail, khead, cells>>

\* the event calls sqs.hard_linked().next()
EvHardLinkedNext ==
    /\ seg.stage = "reserved"
    /\ held.kind # "hard_linked"
    /\ LET c == hard_linked_next(SegState) IN
        IF c.out = 0 - 1 THEN
            /\ held' = NoHeld
            /\ UNCHANGED <<sqes, seg, segOob>>
        ELSE
            /\ SegUpdate([c.st EXCEPT !.seg.last = c.out])
            /\ held' = [kind |-> "hard_linked", idx |-> c.out,
                        is_final |-> c.is_final, prepped |-> FALSE]
    /\ UNCHANGED <<sqe_tail, khead, cells>>

\* the event fills the entry it holds: its own operation (prep_read, ...) or
\* a cancel of the earlier operation whose cell has address target
EvPrep(op, target) ==
    /\ held.kind # "none"
    /\ ~held.prepped
    /\ (op = "cancel") <=> (target # 0)
    /\ target <= cells
    /\ SegUpdate(io_uring_prep(SegState, held.idx, op, target))
    /\ held' = [held EXCEPT !.prepped = TRUE]
    /\ UNCHANGED <<sqe_tail, khead, cells>>

\* the event lets go of a HardLinkedSQE
EvDropHardLinked ==
    /\ held.kind = "hard_linked"
    /\ SegUpdate([hard_linked_sqe_drop(SegState, held)
                    EXCEPT !.seg.hl = @ \cup {held.idx}])
    /\ held' = NoHeld
    /\ UNCHANGED <<sqe_tail, khead, cells>>

\* Event::prepare has returned: the driver calls segment.finish(ctx)
SegFinish ==
    /\ seg.stage = "reserved"
    /\ held.kind # "hard_linked"
    /\ cells' = cells + 1
    /\ SegUpdate(finish(SegState, cells + 1))
    /\ held' = NoHeld
    /\ UNCHANGED <<sqe_tail, khead>>

\* SubmissionQueue::submit: the kernel takes every reserved entry
SqSubmit ==
    /\ seg.stage # "reserved"
    /\ khead < sqe_tail
    /\ khead' = sqe_tail
    /\ UNCHANGED <<sqes, sqe_tail, seg, held, cells, segOob>>

\* ------------------------------------------------------------------------
\* src/drive/demo.rs and src/drive/demo/mod.rs: poll_prepare of the demo
\* drivers
\* ------------------------------------------------------------------------

NoDriver ==
    [impl      |-> "none",   \* "listener": drive/demo.rs, "access": drive/demo/mod.rs
     used      |-> 0,        \* SQ entries prepared and not yet submitted
     pc        |-> "idle",   \* "loop": inside the loop of poll_prepare, SQ locked
     count     |-> 1,        \* entries the call asks for
     listener  |-> "none",   \* the EventListener kept: none, listening, notified
     waker     |-> FALSE,    \* the task's waker is registered with the listener
     permits   |-> MaxPermits,   \* accesses the AccessQueue can still hand out
     last      |-> "none",   \* what the last call returned: Ready, Pending
     rets      |-> FALSE,    \* flips whenever a call returns
     callbacks |-> 0,        \* calls of the prepare callback in this call
     iter      |-> 0]        \* iterations of the loop in this call

InitDrv == drv = NoDriver

DrvOutcomes == {"ok", "ebusy", "err"}

\* return Poll::Pending from a poll of the listener, which stores the waker
drv_pending(d) ==
    [d EXCEPT !.listener = "listening", !.waker = TRUE, !.last = "Pending",
              !.rets = ~@, !.pc = "idle"]

\* the prepare callback runs on the entries and its Completion is returned
drv_prepare(d) ==
    [d EXCEPT !.used = @ + d.count, !.callbacks = @ + 1, !.last = "Ready",
              !.rets = ~@, !.pc = "idle"]

\* driver(): a handle of one of the two demo drivers
DriverNew(impl) ==
    /\ drv.impl = "none"
    /\ drv' = [drv EXCEPT !.impl = impl]

\* poll_prepare is entered. drive/demo.rs locks the SQ and enters the loop.
\* drive/demo/mod.rs first polls its WillAccess: a listener kept from an
\* earlier Pending is polled, then block(1) takes an access or a new
\* listener is registered and the call returns Pending.
PollPrepare(count) ==
    /\ drv.impl # "none"
    /\ drv.pc = "idle"
    /\ LET d == [drv EXCEPT !.count = IF drv.impl = "access" THEN 1 ELSE count,
                            !.callbacks = 0, !.iter = 0] IN
       drv' =
        IF drv.impl = "listener" THEN [d EXCEPT !.pc = "loop"]
        ELSE IF d.listener = "listening" THEN drv_pending(d)
        ELSE IF d.permits > 0 THEN
            [d EXCEPT !.listener = "none", !.permits = @ - 1, !.pc = "loop"]
        ELSE drv_pending(d)

\* poll_submit_inner of drive/demo.rs, entered when prepare_sqes found no
\* room: a kept listener is polled first; sq.submit() Ok empties the queue,
\* EBUSY registers a listener for the next iteration, any other error is
\* returned (and dropped by poll_prepare, which loops)
poll_submit_inner(d, out) ==
    IF d.listener = "listening" THEN drv_pending(d)
    ELSE IF out = "ok" THEN [d EXCEPT !.used = 0, !.listener = "none", !.iter = @ + 1]
    ELSE IF out = "ebusy" THEN [d EXCEPT !.listener = "listening", !.iter = @ + 1]
    ELSE [d EXCEPT !.iter = @ + 1]

\* None => { let _ = sq.submit(); } of drive/demo/mod.rs
access_submit(d, out) ==
    IF out = "ok" THEN [d EXCEPT !.used = 0, !.iter = @ + 1]
    ELSE [d EXCEPT !.iter = @ + 1]

\* one iteration of the loop of poll_prepare
PrepareLoop(out) ==
    /\ drv.pc = "loop"
    /\ drv.iter < MaxIter
    /\ drv' =
        IF drv.used + drv.count <= DrvEntries THEN drv_prepare(drv)
        ELSE IF drv.impl = "listener" THEN poll_submit_inner(drv, out)
        ELSE access_submit(drv, out)

\* poll_submit from another task while the SQ is unlocked
DriverSubmit ==
    /\ drv.pc = "idle"
    /\ drv.used > 0
    /\ drv' = [drv EXCEPT !.used = 0]

\* the completion thread gets a CQE: it notifies the listeners (which wakes
\* the task) and, in drive/demo/mod.rs, releases one access
CompletionThread ==
    /\ drv.impl # "none"
    /\ drv.listener = "listening" \/ (drv.impl = "access" /\ drv.permits < MaxPermits)
    /\ drv' = [drv EXCEPT
            !.listener = IF @ = "listening" THEN "notified" ELSE @,
            !.waker = FALSE,
            !.permits = IF drv.impl = "access" /\ @ < MaxPermits THEN @ + 1 ELSE @]

\* ------------------------------------------------------------------------
\* src/buf.rs and src/buf/mod.rs + src/buf/data.rs: the Buffer of an IO handle
\* ------------------------------------------------------------------------

NoBuffer ==
    [impl   |-> "none",    \* "storage": src/buf.rs, "data": src/buf/mod.rs
     data   |-> 0,         \* the allocation the buffer holds, 0 if none
     allocs |-> 0,         \* allocations made so far; they are numbered 1, 2, ..
     held   |-> {},        \* allocations owned by a Cancellation
     frees  |-> [a \in 1..MaxBufAllocs |-> 0],
     pos    |-> 0,
     cap    |-> 0,
     panic  |-> FALSE,     \* an arithmetic overflow check stopped the caller
     tick   |-> FALSE,     \* flips at every call of a method of the buffer
     op     |-> "none",    \* the method called last
     amt    |-> 0,         \* argument of the last consume
     filled |-> FALSE,     \* the last fill called the fill function
     n      |-> 0,         \* what the fill function returned when last called
     retLen |-> 0]         \* length of the slice the last fill returned

InitBuf == buf = NoBuffer

\* what the fill function returns: Pending, or Ready(Ok(n)) with n bytes
FillOutcomes == {<<"pending", 0>>} \cup {<<"ok", k>> : k \in 0..BufSize}

Min(a, b) == IF a < b THEN a ELSE b

\* Data::alloc_bytes / alloc_read_buf: allocate unless there is an allocation
buffer_alloc(b) ==
    IF b.data # 0 THEN b ELSE [b EXCEPT !.data = b.allocs + 1, !.allocs = @ + 1]

\* Buffer::buffered_from_read of src/buf/mod.rs:
\*   self.data.as_bytes().map_or(&[], |data| &data[pos..cap])
data_buffered(b) ==
    IF b.data = 0 THEN [b EXCEPT !.retLen = 0]
    ELSE IF b.pos > b.cap \/ b.cap > BufSize THEN [b EXCEPT !.panic = TRUE]
    ELSE [b EXCEPT !.retLen = b.cap - b.pos]

\* Buffer::fill_buf of src/buf/mod.rs
data_fill_buf(b, out) ==
    IF b.pos >= b.cap THEN
        LET a == [buffer_alloc(b) EXCEPT !.filled = TRUE] IN
        IF out[1] = "pending" THEN a
        ELSE data_buffered([a EXCEPT !.cap = out[2], !.pos = 0, !.n = out[2]])
    ELSE data_buffered([b EXCEPT !.filled = FALSE])

\* Buffer::buffered_from_read of src/buf.rs: the slice of cap - pos bytes at
\* ptr + pos; the subtraction is on u32, checked in a debug build
storage_buffered(b, build) ==
    IF b.data = 0 THEN [b EXCEPT !.retLen = 0]
    ELSE IF b.cap >= b.pos THEN [b EXCEPT !.retLen = b.cap - b.pos]
    ELSE IF build = "debug" THEN [b EXCEPT !.panic = TRUE]
    ELSE [b EXCEPT !.retLen = (b.cap - b.pos) % CursorMod]

\* Buffer::fill_read_buf of src/buf.rs: the arm Storage::Read, and the arm
\* Storage::Empty, which allocates and then assigns pos and cap
storage_fill_read_buf(b, out, build) ==
    IF b.data # 0 THEN
        IF b.pos >= b.cap THEN
            IF out[1] = "pending" THEN [b EXCEPT !.filled = TRUE]
            ELSE storage_buffered([b EXCEPT !.cap = out[2], !.pos = 0, !.n = out[2],
                                            !.filled = TRUE], build)
        ELSE storage_buffered([b EXCEPT !.filled = FALSE], build)
    ELSE
        LET a == buffer_alloc(b) IN
        IF a.pos >= a.cap THEN
            IF out[1] = "pending" THEN [a EXCEPT !.filled = TRUE]
            ELSE storage_buffered([a EXCEPT !.pos = out[2], !.cap = 0, !.n = out[2],
                                            !.filled = TRUE], build)
        ELSE storage_buffered([a EXCEPT !.filled = FALSE], build)

\* Buffer::consume: self.pos = cmp::min(self.pos + amt as u32, self.cap); the
\* cast truncates amt and the addition is on u32, checked in a debug build
buffer_consume(b, amt, build) ==
    LET sum == b.pos + (amt % CursorMod) IN
    IF sum < CursorMod THEN [b EXCEPT !.pos = Min(sum, b.cap)]
    ELSE IF build = "debug" THEN [b EXCEPT !.panic = TRUE]
    ELSE [b EXCEPT !.pos = Min(sum % CursorMod, b.cap)]

\* Buffer::clear
buffer_clear(b) == [b EXCEPT !.pos = 0, !.cap = 0]

\* Buffer::cancellation: the allocation, if any, moves into the Cancellation;
\* pos and cap are not assigned
buffer_cancellation(b) ==
    IF b.data = 0 THEN b
    ELSE [b EXCEPT !.held = @ \cup {b.data}, !.data = 0]

\* Buffer::new
BufferNew(impl) ==
    /\ buf.impl = "none"
    /\ buf' = [buf EXCEPT !.impl = impl]

BufLive == buf.impl # "none" /\ ~buf.panic

BufFill(out, build) ==
    /\ BufLive
    /\ buf.data # 0 \/ buf.allocs < MaxBufAllocs
    /\ LET b == [buf EXCEPT !.tick = ~@, !.op = "fill"] IN
       buf' = IF buf.impl = "data" THEN data_fill_buf(b, out)
              ELSE storage_fill_read_buf(b, out, build)

BufConsume(amt, build) ==
    /\ BufLive
    /\ buf' = buffer_consume([buf EXCEPT !.tick = ~@, !.op = "consume", !.amt = amt],
                             amt, build)

BufClear ==
    /\ BufLive
    /\ buf' = buffer_clear([buf EXCEPT !.tick = ~@, !.op = "clear"])

BufCancellation ==
    /\ BufLive
    /\ buf' = buffer_cancellation([buf EXCEPT !.tick = ~@, !.op = "cancellation"])

\* a Cancellation made from the buffer is handled or dropped: it frees the
\* allocation it carries
BufCancellationRuns(a) ==
    /\ a \in buf.held
    /\ buf' = [buf EXCEPT !.held = @ \ {a}, !.frees[a] = @ + 1]

\* ------------------------------------------------------------------------
\* src/fs.rs: a File on a Ring
\* ------------------------------------------------------------------------

\* the bytes a file or a slice can hold; 0 is the byte of a hole
ByteVals == {1, 2}

\* the files a File is opened on
Contents == {<<>>, <<1, 2, 1>>}

\* the slices handed to poll_write
Slices == {<<2, 1>>}

\* enum Op of src/fs.rs, and the ones that start an operation on the ring
FileOps == {"Read", "Write", "Close", "Nothing", "Statx", "Closed",
            "SyncAll", "SyncData"}

\* an operation in the kernel's hands: opcode, file offset, bytes to write
NoKop == [op |-> "none", off |-> 0, data |-> <<>>]

\* File::from_fd: Ring::new(driver), active Nothing, an empty Buffer, pos 0.
\* The other fields are the descriptor and the file behind it (fdOpen,
\* kclosed, lclosed, content), the operation of the Ring (ring, kop, done,
\* olds: cancelled operations the kernel has not yet settled) and the last
\* call with what it returned.
NoFile ==
    [open |-> FALSE, dropped |-> FALSE, active |-> "Nothing",
     fdOpen |-> FALSE, kclosed |-> FALSE, lclosed |-> 0,
     pos |-> 0, content |-> <<>>,
     bpos |-> 0, bcap |-> 0, bdata |-> <<>>,
     ring |-> "Inert", kop |-> NoKop, done |-> NoResult, olds |-> {},
     tick |-> FALSE, call |-> "none", ret |-> "none", retBytes |-> <<>>,
     prepared |-> FALSE, after |-> -1, closedOk |-> FALSE,
     panicked |-> FALSE]

InitFile == file = NoFile

\* Ring::cancel of spec 4.6: in Prepared or Submitted the Ring moves to
\* Cancelled and hands the payload to the cell; the operation stays with the
\* kernel until the linked cancel of the next operation settles it
file_ring_cancel(f) ==
    IF f.ring = "Submitted"
    THEN [f EXCEPT !.ring = "Cancelled", !.kop = NoKop, !.done = NoResult,
                   !.olds = IF f.done = NoResult THEN @ \cup {f.kop} ELSE @]
    ELSE f

\* Ring::poll(ctx, 1, prepare) of spec 4.6: Inert or Cancelled prepares and
\* submits the operation and waits; Submitted returns the result once it was
\* dispatched and goes back to Inert
file_ring_poll(f, k) ==
    IF f.ring \in {"Inert", "Cancelled"}
    THEN [f |-> [f EXCEPT !.ring = "Submitted", !.kop = k, !.done = NoResult,
                          !.prepared = TRUE],
          res |-> NoResult]
    ELSE IF f.done = NoResult THEN [f |-> f, res |-> NoResult]
    ELSE [f |-> [f EXCEPT !.ring = "Inert", !.kop = NoKop, !.done = NoResult],
          res |-> f.done]

\* a guard_op that lets a closed File through
file_guard_op_open(f, op) ==
    IF f.active # "Nothing" /\ f.active # op
    THEN [file_ring_cancel(f) EXCEPT !.active = op, !.bpos = 0, !.bcap = 0,
                                     !.bdata = <<>>, !.ret = "none"]
    ELSE [f EXCEPT !.active = op, !.ret = "none"]

\* File::guard_op(op): panic on a closed File; on a change of operation
\* replace the buffer by Buffer::default() and cancel with the old one
file_guard_op(f, op) ==
    IF f.active = "Closed"
    THEN [f EXCEPT !.ret = "panic", !.panicked = TRUE]
    ELSE IF f.active # "Nothing" /\ f.active # op
    THEN [file_ring_cancel(f) EXCEPT !.active = op, !.bpos = 0, !.bcap = 0,
                                     !.bdata = <<>>, !.ret = "none"]
    ELSE [f EXCEPT !.active = op, !.ret = "none"]

\* File::cancel(): active = Nothing, a new buffer, ring.cancel(old buffer)
file_cancel(f) ==
    [file_ring_cancel(f) EXCEPT !.active = "Nothing", !.bpos = 0, !.bcap = 0,
                                !.bdata = <<>>]

\* poll_fill_buf: guard_op(Read); buf.fill_buf(|buf| { n = ready!(ring.poll(
\* prep_read(fd, buf, *pos)))?; *pos += n; Ok(n) }), which reads only when
\* the buffer's pos >= cap
file_poll_fill_buf(f) ==
    LET g == file_guard_op(f, "Read") IN
    IF g.ret = "panic" THEN g
    ELSE IF g.bpos >= g.bcap THEN
        LET p == file_ring_poll(g, [op |-> "Read", off |-> g.pos, data |-> <<>>]) IN
        IF p.res = NoResult THEN [p.f EXCEPT !.ret = "pending"]
        ELSE IF ~p.res[1].ok THEN [p.f EXCEPT !.ret = "err"]
        ELSE [p.f EXCEPT !.pos = @ + p.res[1].n, !.bcap = p.res[1].n,
                         !.bpos = 0, !.bdata = p.res[1].data, !.ret = "ok"]
    ELSE [g EXCEPT !.ret = "ok"]

\* poll_read(buf): inner = ready!(poll_fill_buf)?; len = inner.read(buf);
\* consume(len)
file_poll_read(f, len) ==
    LET r == file_poll_fill_buf(f) IN
    IF r.ret # "ok" THEN r
    ELSE LET inner == SubSeq(r.bdata, r.bpos + 1, r.bcap)
             l == Min(len, Len(inner))
         IN [r EXCEPT !.retBytes = SubSeq(inner, 1, l),
                      !.bpos = Min(r.bpos + l, r.bcap)]

\* poll_write(slice): guard_op(Write); data = buf.fill_buf(write slice into
\* the buffer); n = ready!(ring.poll(prep_write(fd, data, *pos)))?;
\* *pos += n; buf.clear()
file_poll_write(f, slice) ==
    LET g == file_guard_op(f, "Write") IN
    IF g.ret = "panic" THEN g
    ELSE
        LET n == Min(Len(slice), BufSize)
            b == IF g.bpos >= g.bcap
                 THEN [g EXCEPT !.bcap = n, !.bpos = 0,
                                !.bdata = SubSeq(slice, 1, n)]
                 ELSE g
            data == SubSeq(b.bdata, b.bpos + 1, b.bcap)
            p == file_ring_poll(b, [op |-> "Write", off |-> b.pos, data |-> data])
        IN  IF p.res = NoResult THEN [p.f EXCEPT !.ret = "pending"]
            ELSE IF ~p.res[1].ok THEN [p.f EXCEPT !.ret = "err"]
            ELSE [p.f EXCEPT !.pos = @ + p.res[1].n, !.bpos = 0, !.bcap = 0,
                             !.ret = "ok"]

\* poll_close, poll_sync_all, poll_sync_data: guard_op(op); ready!(ring.poll(
\* prep_close(fd) / prep_fsync(fd, ..)))?; confirm_close()
file_poll_closing(f, op) ==
    LET g == file_guard_op(f, op) IN
    IF g.ret = "panic" THEN g
    ELSE
        LET p == file_ring_poll(g, [op |-> op, off |-> 0, data |-> <<>>]) IN
        IF p.res = NoResult THEN [p.f EXCEPT !.ret = "pending"]
        ELSE IF ~p.res[1].ok THEN [p.f EXCEPT !.ret = "err"]
        ELSE [p.f EXCEPT !.active = "Closed", !.ret = "ok",
                         !.closedOk = @ \/ op = "Close"]

\* poll_statx: guard_op(Statx); the buffer slot becomes the statx record;
\* ready!(ring.poll(prep_statx(..)))?
file_poll_statx(f) ==
    LET g == file_guard_op(f, "Statx") IN
    IF g.ret = "panic" THEN g
    ELSE
        LET p == file_ring_poll([g EXCEPT !.bpos = 0, !.bcap = 0, !.bdata = <<>>],
                                [op |-> "Statx", off |-> 0, data |-> <<>>]) IN
        IF p.res = NoResult THEN [p.f EXCEPT !.ret = "pending"]
        ELSE IF ~p.res[1].ok THEN [p.f EXCEPT !.ret = "err"]
        ELSE [p.f EXCEPT !.ret = "ok"]

\* poll_seek: Start(n) stores n; Current(n) adds n to pos, InvalidInput
\* below zero
file_poll_seek(f, whence, n) ==
    IF whence = "Start" THEN [f EXCEPT !.pos = n, !.ret = "ok", !.after = n]
    ELSE IF f.pos + n < 0 THEN [f EXCEPT !.ret = "err", !.after = -1]
    ELSE [f EXCEPT !.pos = @ + n, !.ret = "ok", !.after = -1]

\* impl Drop for File: Closed => nothing, Nothing => libc::close(fd),
\* _ => self.cancel()
file_drop(f) ==
    IF f.active = "Closed" THEN f
    ELSE IF f.active = "Nothing"
    THEN [f EXCEPT !.lclosed = @ + 1, !.fdOpen = FALSE]
    ELSE file_cancel(f)

\* the file after the kernel has written data at offset off
WriteAt(content, off, data) ==
    LET len == IF off + Len(data) > Len(content) THEN off + Len(data)
               ELSE Len(content)
    IN [i \in 1..len |->
            IF i > off /\ i <= off + Len(data) THEN data[i - off]
            ELSE IF i <= Len(content) THEN content[i]
            ELSE 0]

\* what the kernel does with an operation on an open descriptor
kernel_effect(f, k) ==
    CASE k.op = "Write" /\ k.data # <<>> ->
            [f EXCEPT !.content = WriteAt(@, k.off, k.data)]
      [] k.op = "Close" -> [f EXCEPT !.fdOpen = FALSE, !.kclosed = TRUE]
      [] OTHER -> f

\* and the CQE it posts for it
kernel_result(f, k) ==
    CASE k.op = "Read" ->
            LET avail == IF Len(f.content) > k.off THEN Len(f.content) - k.off
                         ELSE 0
                n == Min(BufSize, avail)
            IN [ok |-> TRUE, n |-> n,
                data |-> SubSeq(f.content, k.off + 1, k.off + n)]
      [] k.op = "Write" -> [ok |-> TRUE, n |-> Len(k.data), data |-> <<>>]
      [] OTHER -> [ok |-> TRUE, n |-> 0, data |-> <<>>]

KernelError == [ok |-> FALSE, n |-> 0, data |-> <<>>]

\* a live File; a call that would cancel an operation the kernel has not run
\* is made only while fewer than MaxOlds cancelled operations are unsettled
FileLive ==
    /\ file.open
    /\ ~file.dropped
    /\ (file.ring = "Submitted" /\ file.done = NoResult) =>
            Cardinality(file.olds) < MaxOlds

FileCall(name) ==
    [file EXCEPT !.tick = ~@, !.call = name, !.ret = "none",
                 !.retBytes = <<>>, !.prepared = FALSE]

\* File::run_on_driver(file, driver) on an open file
FileOpen(content) ==
    /\ ~file.open
    /\ file' = [file EXCEPT !.open = TRUE, !.fdOpen = TRUE, !.content = content]

FilePollRead(len) ==
    /\ FileLive
    /\ LET r == file_poll_read(FileCall("read"), len) IN
       file' = IF r.ret \in {"ok", "err"} THEN [r EXCEPT !.after = -1] ELSE r

FilePollWrite(slice) ==
    /\ FileLive
    /\ file.pos + Len(slice) <= MaxFileLen
    /\ file' = file_poll_write([FileCall("write") EXCEPT !.after = -1], slice)

FilePollClosing(op) ==
    /\ FileLive
    /\ file' = file_poll_closing(
                    [FileCall(IF op = "Close" THEN "close" ELSE "sync")
                        EXCEPT !.after = -1], op)

FilePollStatx ==
    /\ FileLive
    /\ file' = file_poll_statx([FileCall("statx") EXCEPT !.after = -1])

FilePollSeek(whence, n) ==
    /\ FileLive
    /\ file' = file_poll_seek(FileCall("seek"), whence, n)

\* the kernel runs the operation of the Ring and posts its CQE; it waits for
\* the cancelled operations hard-linked in front of it
FileKernel(ok) ==
    /\ file.ring = "Submitted"
    /\ file.done = NoResult
    /\ file.olds = {}
    /\ file' = IF ok /\ file.fdOpen
               THEN [kernel_effect(file, file.kop)
                        EXCEPT !.done = Some(kernel_result(file, file.kop))]
               ELSE [file EXCEPT !.done = Some(KernelError)]

\* the kernel settles a cancelled operation: it ran before the cancel
\* reached it, or it was cancelled
FileKernelCancelled(k, ran) ==
    /\ k \in file.olds
    /\ file' = IF ran /\ file.fdOpen
               THEN [kernel_effect(file, k) EXCEPT !.olds = @ \ {k}]
               ELSE [file EXCEPT !.olds = @ \ {k}]

FileDrop ==
    /\ FileLive
    /\ file' = [file_drop(FileCall("drop")) EXCEPT !.dropped = TRUE]

\* ------------------------------------------------------------------------
\* src/drive/demo/access_queue.rs: the count of an AccessQueue
\* ------------------------------------------------------------------------

\* a thread outside block
IdleBlocker == [pc |-> "idle", amt |-> 0, current |-> 0, ret |-> "none",
                seen |-> 0]

\* AccessQueue::new(guarded, accesses): count = accesses.  initial, released
\* and blocked record what was put in and taken out; tick and who name the
\* last step of block.
NoQueue == [made |-> FALSE, count |-> 0, initial |-> 0, released |-> 0,
            blocked |-> 0, t |-> [i \in AqThreads |-> IdleBlocker],
            tick |-> FALSE, who |-> 0]

InitAq == aq = NoQueue

AccessQueueNew(accesses) ==
    /\ ~aq.made
    /\ aq' = [aq EXCEPT !.made = TRUE, !.count = accesses, !.initial = accesses]

\* block(count, amt), first line: let mut current = count.load(SeqCst)
BlockLoad(i, amt) ==
    /\ aq.made
    /\ aq.t[i].pc = "idle"
    /\ aq' = [aq EXCEPT !.t[i] = [pc |-> "loop", amt |-> amt,
                                  current |-> aq.count, ret |-> "none",
                                  seen |-> aq.count],
                        !.tick = ~@, !.who = i]

\* a loop step that stores current - amt without comparing
block_step_store(q, i, spurious) ==
    LET me == q.t[i] IN
    IF me.current < me.amt
    THEN [q EXCEPT !.t[i].pc = "idle", !.t[i].ret = "false"]
    ELSE [q EXCEPT !.count = me.current - me.amt,
                   !.blocked = @ + me.amt,
                   !.t[i].pc = "idle", !.t[i].ret = "true"]

\* one turn of the loop of block: while current >= amt {
\*   match count.compare_exchange_weak(current, current - amt) {
\*     Ok(_) => return true, Err(n) => current = n } } false
\* compare_exchange_weak fails when the count differs from current, and may
\* fail spuriously when it does not; either way it returns the count.
block_step(q, i, spurious) ==
    LET me == q.t[i] IN
    IF me.current < me.amt
    THEN [q EXCEPT !.t[i].pc = "idle", !.t[i].ret = "false"]
    ELSE IF q.count = me.current /\ ~spurious
    THEN [q EXCEPT !.count = me.current - me.amt,
                   !.blocked = @ + me.amt,
                   !.t[i].pc = "idle", !.t[i].ret = "true"]
    ELSE [q EXCEPT !.t[i].current = q.count, !.t[i].seen = q.count]

BlockStep(i, spurious) ==
    /\ aq.t[i].pc = "loop"
    /\ aq' = block_step([aq EXCEPT !.tick = ~@, !.who = i], i, spurious)

\* AccessQueue::release(amt): count.fetch_add(amt, SeqCst); event.notify(amt)
AccessQueueRelease(amt) ==
    /\ aq.made
    /\ aq.released + amt <= MaxReleased
    /\ aq' = [aq EXCEPT !.count = @ + amt, !.released = @ + amt]

\* ------------------------------------------------------------------------
\* src/ring/completion.rs ("mutex") and src/completion.rs ("atomic"):
\* complete on a Submitted cell, one statement at a time
\* ------------------------------------------------------------------------

\* a Submitted cell and the thread that dispatches its CQE.  locked: the
\* Mutex is held / the tag is UPDATING.  inline: the waker polls the task on
\* the thread that calls wake().  stuck: a thread waits for a lock it holds
\* itself.  wokeAt: the tag and the lock at the call of wake().
NoWake == [impl |-> "none", inline |-> FALSE, tag |-> "None", locked |-> FALSE,
           res |-> 0, pc |-> "idle", woken |-> FALSE, stuck |-> FALSE,
           got |-> NoResult, freed |-> FALSE,
           wokeAt |-> [tag |-> "None", locked |-> FALSE]]

InitWake == wk = NoWake

\* Completion::new(waker), and the CQE the kernel posts for it
WakeNew(impl, inline, res) ==
    /\ wk.impl = "none"
    /\ wk' = [wk EXCEPT !.impl = impl, !.inline = inline, !.tag = "Submitted",
                        !.res = res]

\* Completion::check as far as a Completed cell goes: take the lock (wait
\* while it is held), read the result, release, deallocate.  A thread that
\* holds the lock itself waits for ever.
wake_check(w, sameThread) ==
    IF w.locked THEN (IF sameThread THEN [w EXCEPT !.stuck = TRUE] ELSE w)
    ELSE IF w.tag = "Completed"
    THEN [w EXCEPT !.got = Some(result(w.res)), !.freed = TRUE, !.tag = "Freed"]
    ELSE w

\* waker.wake(): an inline waker polls the task at once, on this thread
waker_wake(w) ==
    LET v == [w EXCEPT !.woken = TRUE,
                       !.wokeAt = [tag |-> w.tag, locked |-> w.locked]]
    IN IF w.inline THEN wake_check(v, TRUE) ELSE v

\* Completion::complete of src/ring/completion.rs, arm Submitted(waker):
\*   let mut state = self.state.lock();
\*   match mem::replace(&mut *state, State::Empty) {
\*     Submitted(waker) => { *state = Completed(result); waker.wake(); } .. }
\* the guard `state` is released when the function returns
ring_completion_complete(w) ==
    CASE w.pc = "idle"   -> [w EXCEPT !.locked = TRUE, !.tag = "Empty", !.pc = "replaced"]
      [] w.pc = "replaced" -> [w EXCEPT !.tag = "Completed", !.pc = "stored"]
      [] w.pc = "stored" -> [waker_wake(w) EXCEPT !.pc = "woke"]
      [] w.pc = "woke"   -> [w EXCEPT !.locked = FALSE, !.pc = "done"]
      [] OTHER -> w

\* complete of src/completion.rs, arm SUBMITTED:
\*   compare_and_swap(SUBMITTED, UPDATING); mem::replace(data, Data { result });
\*   state.tag.store(COMPLETED, Release); waker.wake(); return
completion_complete(w) ==
    CASE w.pc = "idle"   -> [w EXCEPT !.locked = TRUE, !.tag = "Updating", !.pc = "replaced"]
      [] w.pc = "replaced" -> [w EXCEPT !.locked = FALSE, !.tag = "Completed", !.pc = "stored"]
      [] w.pc = "stored" -> [waker_wake(w) EXCEPT !.pc = "done"]
      [] OTHER -> w

\* the dispatching thread runs its next statement; it cannot when it waits
\* for the lock
DispatchStep ==
    /\ wk.impl # "none"
    /\ wk.pc # "done"
    /\ ~wk.stuck
    /\ wk' = IF wk.impl = "mutex" THEN ring_completion_complete(wk)
             ELSE completion_complete(wk)

\* the task polls on its own thread (after a wake, or for another reason)
\* and calls check, which waits while the lock is held
TaskCheck ==
    /\ wk.impl # "none"
    /\ ~wk.inline
    /\ ~wk.freed
    /\ ~wk.locked
    /\ wk' = wake_check(wk, FALSE)

\* ------------------------------------------------------------------------
\* The Engine state machine (SpecEng)
\* ------------------------------------------------------------------------
\* impl "engine": src/engine.rs (Inert, Prepared, Submitted); impl "ring":
\* poll_read of src/ring/engine.rs (Inert, ReadPrepared, ReadSubmitted).
\* cell: the completion the engine holds.  ready: poll_submit has returned
\* Ready for the operation prepared last.  again: calls of poll_submit made
\* for that operation after that.  calls: what the last poll called.
NoEngine == [impl |-> "none", state |-> "Inert", cell |-> "None", res |-> 0,
             ops |-> 0, ready |-> FALSE, again |-> 0, calls |-> {},
             out |-> NoResult, tick |-> FALSE]

InitEng == eng = NoEngine

EngineNew(impl) ==
    /\ eng.impl = "none"
    /\ eng' = [eng EXCEPT !.impl = impl]

\* driver.poll_submit(ctx, true), as the engine's history sees it
engine_poll_submit(e, sub) ==
    [e EXCEPT !.calls = @ \cup {"poll_submit"},
              !.again = IF e.ready THEN @ + 1 ELSE @,
              !.ready = @ \/ sub # "pending"]

\* try_submit of src/ring/engine.rs:
\*   let _ = ready!(driver.poll_submit(ctx, true)); Poll::Pending
ring_engine_try_submit(e, sub) ==
    [e |-> engine_poll_submit(e, sub), ready |-> FALSE]

\* try_submit of src/engine.rs:
\*   let _ = ready!(driver.poll_submit(ctx, true)); *state = Submitted;
\*   Poll::Ready(())
engine_try_submit(e, sub) ==
    LET e1 == engine_poll_submit(e, sub) IN
    IF sub = "pending" THEN [e |-> e1, ready |-> FALSE]
    ELSE [e |-> [e1 EXCEPT !.state = "Submitted"], ready |-> TRUE]

\* try_prepare / the poll_prepare of poll_read, when the driver is Ready:
\* a new cell, and the state Prepared (ReadPrepared)
engine_try_prepare(e) ==
    [e EXCEPT !.state = IF e.impl = "ring" THEN "ReadPrepared" ELSE "Prepared",
              !.cell = "Submitted", !.ops = @ + 1, !.ready = FALSE,
              !.again = 0, !.calls = @ \cup {"poll_prepare"}]

\* try_complete: check the cell; Ready(result) makes the state Inert and
\* deallocates the cell, Pending sets the waker
engine_try_complete(e) ==
    LET e1 == [e EXCEPT !.calls = @ \cup {"check"}] IN
    IF e.cell = "Completed"
    THEN [e |-> [e1 EXCEPT !.state = "Inert", !.cell = "None", !.ready = FALSE,
                           !.again = 0],
          out |-> Some(result(e.res))]
    ELSE [e |-> e1, out |-> NoResult]

\* Engine::poll of src/engine.rs
engine_poll(e, prep, sub) ==
    IF e.state = "Inert" THEN
        IF prep = "pending" THEN [e |-> [e EXCEPT !.calls = @ \cup {"poll_prepare"}],
                                  out |-> NoResult]
        ELSE [e |-> engine_try_submit(engine_try_prepare(e), sub).e, out |-> NoResult]
    ELSE IF e.state = "Prepared" THEN
        LET c == engine_try_complete(e) IN
        IF c.out # NoResult THEN c
        ELSE [e |-> engine_try_submit(c.e, sub).e, out |-> NoResult]
    ELSE engine_try_complete(e)

\* Engine::poll_read of src/ring/engine.rs; `ready!(self.try_submit(..));
\* self.state = ReadSubmitted` assigns only if try_submit was Ready
ring_engine_poll_read(e, prep, sub) ==
    IF e.state = "ReadSubmitted" THEN engine_try_complete(e)
    ELSE IF e.state = "ReadPrepared" THEN
        LET c == engine_try_complete(e) IN
        IF c.out # NoResult THEN c
        ELSE LET t == ring_engine_try_submit(c.e, sub) IN
             [e |-> IF t.ready THEN [t.e EXCEPT !.state = "ReadSubmitted"] ELSE t.e,
              out |-> NoResult]
    ELSE
        IF prep = "pending" THEN [e |-> [e EXCEPT !.calls = @ \cup {"poll_prepare"}],
                                  out |-> NoResult]
        ELSE LET t == ring_engine_try_submit(engine_try_prepare(e), sub) IN
             [e |-> IF t.ready THEN [t.e EXCEPT !.state = "ReadSubmitted"] ELSE t.e,
              out |-> NoResult]

\* the task polls the engine; a new operation starts only while the bound
\* allows, and the count of repeated submits is capped
EnginePoll(prep, sub) ==
    /\ eng.impl # "none"
    /\ eng.state = "Inert" /\ prep = "ready" => eng.ops < MaxOps
    /\ eng.again < MaxResubmits
    /\ LET p == IF eng.impl = "ring"
                THEN ring_engine_poll_read([eng EXCEPT !.calls = {}], prep, sub)
                ELSE engine_poll([eng EXCEPT !.calls = {}], prep, sub)
       IN eng' = [p.e EXCEPT !.out = p.out, !.tick = ~@]

\* the driver completes the engine's cell (the submission queue is shared:
\* any task's poll_submit hands the prepared SQE to the kernel)
EngineDispatch(res) ==
    /\ eng.cell = "Submitted"
    /\ eng' = [eng EXCEPT !.cell = "Completed", !.res = res]

\* ------------------------------------------------------------------------
\* The demo driver and its access queue (SpecDemo)
\* ------------------------------------------------------------------------
\* src/drive/demo/mod.rs with a submission queue of DrvEntries entries.
\* count: the AccessQueue's counter.  sq: entries prepared and not yet
\* submitted.  kernel: operations the kernel holds.  cq: CQEs posted and not
\* yet taken by the completion thread.  listeners: the Event's listeners
\* that wait, oldest first.  listener[i]: the EventListener task i keeps in
\* its WillAccess (none, listening, notified).  pc[i]: "failed" while task i
\* is between a block(1) that returned false and event.listen().  last[i]:
\* what the last poll_prepare of task i returned.
Budget == 2 * DrvEntries

NoDemo == [made |-> FALSE, count |-> 0, sq |-> 0, kernel |-> 0, cq |-> 0,
           listeners |-> <<>>,
           listener |-> [i \in DemoTasks |-> "none"],
           pc |-> [i \in DemoTasks |-> "idle"],
           last |-> [i \in DemoTasks |-> "none"]]

InitDemo == demo = NoDemo

\* init(): AccessQueue::new(Queues::new(..), (ENTRIES * 2) as usize)
DemoInit ==
    /\ ~demo.made
    /\ demo' = [demo EXCEPT !.made = TRUE, !.count = Budget]

\* Event::notify(1): unless a notified listener has not been polled yet, the
\* oldest waiting listener is notified, which wakes its task; with no
\* listener nothing is kept
demo_notify(d) ==
    IF \E j \in DemoTasks : d.listener[j] = "notified" THEN d
    ELSE IF d.listeners = <<>> THEN d
    ELSE [d EXCEPT !.listener[Head(d.listeners)] = "notified",
                   !.listeners = Tail(@)]

\* AccessQueueLock::release(1): count.fetch_add(1), lock.notify(1)
demo_release(d) == demo_notify([d EXCEPT !.count = @ + 1])

\* DemoDriver::poll_prepare once block(1) has taken the access: the loop on
\* sq.next_sqe() (None => sq.submit(), which hands the prepared entries to
\* the kernel), the prepare callback on the entry, and
\* queues.hold_indefinitely(), which keeps the access
demo_prepare(d, i) ==
    LET s == IF d.sq < DrvEntries THEN d
             ELSE [d EXCEPT !.kernel = @ + d.sq, !.sq = 0]
    IN [s EXCEPT !.sq = @ + 1, !.last[i] = "Ready"]

\* DemoDriver::poll_prepare up to the end of block(1) in WillAccess::poll: a
\* notified listener is dropped; with an access taken the call runs to its
\* end, otherwise the task is about to listen
demo_poll_prepare(d, i) ==
    LET d1 == [d EXCEPT !.listener[i] = "none"] IN
    IF d1.count > 0 THEN demo_prepare([d1 EXCEPT !.count = @ - 1], i)
    ELSE [d1 EXCEPT !.pc[i] = "failed"]

\* task i starts an operation: its first poll_prepare for it
DemoPollPrepare(i) ==
    /\ demo.made
    /\ demo.listener[i] = "none"
    /\ demo.pc[i] = "idle"
    /\ demo' = demo_poll_prepare(demo, i)

\* WillAccess::poll after block(1) returned false: event.listen(), the poll
\* of the new listener is Pending, and so is poll_prepare
DemoListen(i) ==
    /\ demo.pc[i] = "failed"
    /\ demo' = [demo EXCEPT !.pc[i] = "idle", !.listener[i] = "listening",
                            !.listeners = Append(@, i), !.last[i] = "Pending"]

\* task i, woken by the notification of its listener, polls again
DemoPollWoken(i) ==
    /\ demo.listener[i] = "notified"
    /\ demo' = demo_poll_prepare(demo, i)

\* DemoDriver::poll_submit(ctx, true): sq.submit()
DemoPollSubmit ==
    /\ demo.sq > 0
    /\ demo' = [demo EXCEPT !.kernel = @ + demo.sq, !.sq = 0]

\* the kernel finishes an operation and posts its CQE
DemoKernel ==
    /\ demo.kernel > 0
    /\ demo' = [demo EXCEPT !.kernel = @ - 1, !.cq = @ + 1]

\* complete(queues), for one CQE: lock.release(1); super::complete(cqe)
DemoComplete ==
    /\ demo.cq > 0
    /\ demo' = demo_release([demo EXCEPT !.cq = @ - 1])

\* ------------------------------------------------------------------------
\* Specifications
\* ------------------------------------------------------------------------

Init == InitCell /\ InitSub /\ InitRing /\ InitSeg /\ InitDrv /\ InitBuf /\ InitFile /\ InitAq /\ InitWake /\ InitEng /\ InitDemo

NextCell ==
    \/ \E w \in Wakers : CompletionNew(w) /\ UNCHANGED <<subVars, ring, segVars, drv, buf, file, aq, wk, eng, demo>>
    \/ \E w \in Wakers : Check(w) /\ UNCHANGED <<subVars, ring, segVars, drv, buf, file, aq, wk, eng, demo>>
    \/ \E k \in Kinds : Cancel(k) /\ UNCHANGED <<subVars, ring, segVars, drv, buf, file, aq, wk, eng, demo>>
    \/ \E r \in RawResults : Complete(r) /\ UNCHANGED <<subVars, ring, segVars, drv, buf, file, aq, wk, eng, demo>>
    \/ \E r \in RawResults : CompleteDuplicate(r) /\ UNCHANGED <<subVars, ring, segVars, drv, buf, file, aq, wk, eng, demo>>
    \/ \E ud \in StrayUserData, b \in Builds :
            CompleteStray(ud, b) /\ UNCHANGED <<subVars, ring, segVars, drv, buf, file, aq, wk, eng, demo>>

SpecCell == Init /\ [][NextCell]_vars

NextSub ==
    \/ \E w \in Wakers : Poll(w) /\ UNCHANGED <<cellVars, ring, segVars, drv, buf, file, aq, wk, eng, demo>>
    \/ \E sub \in SubmitOutcomes : PollSetWaker(sub) /\ UNCHANGED <<cellVars, ring, segVars, drv, buf, file, aq, wk, eng, demo>>
    \/ \E r \in RawResults : Dispatch(r) /\ UNCHANGED <<cellVars, ring, segVars, drv, buf, file, aq, wk, eng, demo>>
    \/ SubDrop /\ UNCHANGED <<cellVars, ring, segVars, drv, buf, file, aq, wk, eng, demo>>
    \/ DriverSubmits /\ UNCHANGED <<cellVars, ring, segVars, drv, buf, file, aq, wk, eng, demo>>

SpecSub == Init /\ [][NextSub]_vars

NextRing ==
    \/ \E prep \in {"pending", "ready"}, sub \in SubmitOutcomes :
            RingPollFillBuf(prep, sub) /\ UNCHANGED <<cellVars, subVars, segVars, drv, buf, file, aq, wk, eng, demo>>
    \/ \E all \in BOOLEAN : RingConsume(all) /\ UNCHANGED <<cellVars, subVars, segVars, drv, buf, file, aq, wk, eng, demo>>
    \/ \E nonempty \in BOOLEAN, prep \in {"pending", "ready"}, sub \in SubmitOutcomes :
            RingPollWrite(nonempty, prep, sub) /\ UNCHANGED <<cellVars, subVars, segVars, drv, buf, file, aq, wk, eng, demo>>
    \/ \E prep \in {"pending", "ready"}, sub \in SubmitOutcomes :
            RingPollClose(prep, sub) /\ UNCHANGED <<cellVars, subVars, segVars, drv, buf, file, aq, wk, eng, demo>>
    \/ RingDriverSubmits /\ UNCHANGED <<cellVars, subVars, segVars, drv, buf, file, aq, wk, eng, demo>>
    \/ \E res \in RawResults : RingDispatch(res) /\ UNCHANGED <<cellVars, subVars, segVars, drv, buf, file, aq, wk, eng, demo>>
    \/ RingDrop /\ UNCHANGED <<cellVars, subVars, segVars, drv, buf, file, aq, wk, eng, demo>>

SpecRing == Init /\ [][NextRing]_vars

NextSeg ==
    \/ \E n \in 1..MaxN : SqPrepare(n) /\ UNCHANGED <<cellVars, subVars, ring, drv, buf, file, aq, wk, eng, demo>>
    \/ EvSingular /\ UNCHANGED <<cellVars, subVars, ring, drv, buf, file, aq, wk, eng, demo>>
    \/ EvHardLinkedNext /\ UNCHANGED <<cellVars, subVars, ring, drv, buf, file, aq, wk, eng, demo>>
    \/ \E op \in {"user", "cancel"}, target \in 0..MaxTail :
            EvPrep(op, target) /\ UNCHANGED <<cellVars, subVars, ring, drv, buf, file, aq, wk, eng, demo>>
    \/ EvDropHardLinked /\ UNCHANGED <<cellVars, subVars, ring, drv, buf, file, aq, wk, eng, demo>>
    \/ SegFinish /\ UNCHANGED <<cellVars, subVars, ring, drv, buf, file, aq, wk, eng, demo>>
    \/ SqSubmit /\ UNCHANGED <<cellVars, subVars, ring, drv, buf, file, aq, wk, eng, demo>>

SpecSeg == Init /\ [][NextSeg]_vars

NextDrv ==
    \/ \E i \in {"listener", "access"} :
            DriverNew(i) /\ UNCHANGED <<cellVars, subVars, ring, segVars, buf, file, aq, wk, eng, demo>>
    \/ \E n \in 1..MaxCount :
            PollPrepare(n) /\ UNCHANGED <<cellVars, subVars, ring, segVars, buf, file, aq, wk, eng, demo>>
    \/ \E out \in DrvOutcomes :
            PrepareLoop(out) /\ UNCHANGED <<cellVars, subVars, ring, segVars, buf, file, aq, wk, eng, demo>>
    \/ DriverSubmit /\ UNCHANGED <<cellVars, subVars, ring, segVars, buf, file, aq, wk, eng, demo>>
    \/ CompletionThread /\ UNCHANGED <<cellVars, subVars, ring, segVars, buf, file, aq, wk, eng, demo>>

SpecDrv == Init /\ [][NextDrv]_vars

NextBuf ==
    \/ \E i \in {"storage", "data"} :
            BufferNew(i) /\ UNCHANGED <<cellVars, subVars, ring, segVars, drv, file, aq, wk, eng, demo>>
    \/ \E out \in FillOutcomes, b \in Builds :
            BufFill(out, b) /\ UNCHANGED <<cellVars, subVars, ring, segVars, drv, file, aq, wk, eng, demo>>
    \/ \E amt \in Amounts, b \in Builds :
            BufConsume(amt, b) /\ UNCHANGED <<cellVars, subVars, ring, segVars, drv, file, aq, wk, eng, demo>>
    \/ BufClear /\ UNCHANGED <<cellVars, subVars, ring, segVars, drv, file, aq, wk, eng, demo>>
    \/ BufCancellation /\ UNCHANGED <<cellVars, subVars, ring, segVars, drv, file, aq, wk, eng, demo>>
    \/ \E a \in 1..MaxBufAllocs :
            BufCancellationRuns(a) /\ UNCHANGED <<cellVars, subVars, ring, segVars, drv, file, aq, wk, eng, demo>>

SpecBuf == Init /\ [][NextBuf]_vars

NextFile ==
    \/ \E c \in Contents :
            FileOpen(c) /\ UNCHANGED <<cellVars, subVars, ring, segVars, drv, buf, aq, wk, eng, demo>>
    \/ \E len \in 1..BufSize :
            FilePollRead(len) /\ UNCHANGED <<cellVars, subVars, ring, segVars, drv, buf, aq, wk, eng, demo>>
    \/ \E s \in Slices :
            FilePollWrite(s) /\ UNCHANGED <<cellVars, subVars, ring, segVars, drv, buf, aq, wk, eng, demo>>
    \/ \E op \in {"Close", "SyncAll", "SyncData"} :
            FilePollClosing(op) /\ UNCHANGED <<cellVars, subVars, ring, segVars, drv, buf, aq, wk, eng, demo>>
    \/ FilePollStatx /\ UNCHANGED <<cellVars, subVars, ring, segVars, drv, buf, aq, wk, eng, demo>>
    \/ \E p \in 0..MaxSeek :
            FilePollSeek("Start", p) /\ UNCHANGED <<cellVars, subVars, ring, segVars, drv, buf, aq, wk, eng, demo>>
    \/ \E n \in {-1, 1} :
            FilePollSeek("Current", n) /\ file.pos + n <= MaxSeek
                /\ UNCHANGED <<cellVars, subVars, ring, segVars, drv, buf, aq, wk, eng, demo>>
    \/ \E ok \in BOOLEAN :
            FileKernel(ok) /\ UNCHANGED <<cellVars, subVars, ring, segVars, drv, buf, aq, wk, eng, demo>>
    \/ \E k \in file.olds, ran \in BOOLEAN :
            FileKernelCancelled(k, ran) /\ UNCHANGED <<cellVars, subVars, ring, segVars, drv, buf, aq, wk, eng, demo>>
    \/ FileDrop /\ UNCHANGED <<cellVars, subVars, ring, segVars, drv, buf, aq, wk, eng, demo>>

SpecFile == Init /\ [][NextFile]_vars

NextAq ==
    \/ \E n \in 0..MaxAmt :
            AccessQueueNew(n) /\ UNCHANGED <<cellVars, subVars, ring, segVars, drv, buf, file, wk, eng, demo>>
    \/ \E i \in AqThreads, amt \in 0..MaxAmt :
            BlockLoad(i, amt) /\ UNCHANGED <<cellVars, subVars, ring, segVars, drv, buf, file, wk, eng, demo>>
    \/ \E i \in AqThreads, spurious \in BOOLEAN :
            BlockStep(i, spurious) /\ UNCHANGED <<cellVars, subVars, ring, segVars, drv, buf, file, wk, eng, demo>>
    \/ \E amt \in 1..MaxAmt :
            AccessQueueRelease(amt) /\ UNCHANGED <<cellVars, subVars, ring, segVars, drv, buf, file, wk, eng, demo>>

SpecAq == Init /\ [][NextAq]_vars

NextWake ==
    \/ \E i \in {"mutex", "atomic"}, inline \in BOOLEAN, res \in RawResults :
            WakeNew(i, inline, res)
                /\ UNCHANGED <<cellVars, subVars, ring, segVars, drv, buf, file, aq, eng, demo>>
    \/ DispatchStep /\ UNCHANGED <<cellVars, subVars, ring, segVars, drv, buf, file, aq, eng, demo>>
    \/ TaskCheck /\ wk' # wk
                 /\ UNCHANGED <<cellVars, subVars, ring, segVars, drv, buf, file, aq, eng, demo>>

SpecWake == Init /\ [][NextWake]_vars

NextEng ==
    \/ \E impl \in {"engine", "ring"} :
            EngineNew(impl) /\ UNCHANGED <<cellVars, subVars, ring, segVars, drv, buf, file, aq, wk, demo>>
    \/ \E prep \in {"pending", "ready"}, sub \in SubmitOutcomes :
            EnginePoll(prep, sub) /\ UNCHANGED <<cellVars, subVars, ring, segVars, drv, buf, file, aq, wk, demo>>
    \/ \E res \in RawResults :
            EngineDispatch(res) /\ UNCHANGED <<cellVars, subVars, ring, segVars, drv, buf, file, aq, wk, demo>>

SpecEng == Init /\ [][NextEng]_vars

NextDemo ==
    \/ DemoInit /\ UNCHANGED <<cellVars, subVars, ring, segVars, drv, buf, file, aq, wk, eng>>
    \/ \E i \in DemoTasks : DemoPollPrepare(i) /\ UNCHANGED <<cellVars, subVars, ring, segVars, drv, buf, file, aq, wk, eng>>
    \/ \E i \in DemoTasks : DemoListen(i) /\ UNCHANGED <<cellVars, subVars, ring, segVars, drv, buf, file, aq, wk, eng>>
    \/ \E i \in DemoTasks : DemoPollWoken(i) /\ UNCHANGED <<cellVars, subVars, ring, segVars, drv, buf, file, aq, wk, eng>>
    \/ DemoPollSubmit /\ UNCHANGED <<cellVars, subVars, ring, segVars, drv, buf, file, aq, wk, eng>>
    \/ DemoKernel /\ UNCHANGED <<cellVars, subVars, ring, segVars, drv, buf, file, aq, wk, eng>>
    \/ DemoComplete /\ UNCHANGED <<cellVars, subVars, ring, segVars, drv, buf, file, aq, wk, eng>>

SpecDemo == Init /\ [][NextDemo]_vars

\* A thread inside a call goes on, the executor polls a woken task,
\* submissions are pushed, the kernel
\* finishes what it holds and the completion thread takes what is posted;
\* when a task starts an operation is up to the task.
DemoFairness ==
    /\ \A i \in DemoTasks : WF_vars(DemoListen(i) /\ UNCHANGED <<cellVars, subVars, ring, segVars, drv, buf, file, aq, wk, eng>>)
    /\ \A i \in DemoTasks : WF_vars(DemoPollWoken(i) /\ UNCHANGED <<cellVars, subVars, ring, segVars, drv, buf, file, aq, wk, eng>>)
    /\ WF_vars(DemoPollSubmit /\ UNCHANGED <<cellVars, subVars, ring, segVars, drv, buf, file, aq, wk, eng>>)
    /\ WF_vars(DemoKernel /\ UNCHANGED <<cellVars, subVars, ring, segVars, drv, buf, file, aq, wk, eng>>)
    /\ WF_vars(DemoComplete /\ UNCHANGED <<cellVars, subVars, ring, segVars, drv, buf, file, aq, wk, eng>>)

SpecDemoFair == Init /\ [][NextDemo]_vars /\ DemoFairness

\* ------------------------------------------------------------------------
\* Claims about the cell (SpecCell)
\* ------------------------------------------------------------------------

\* both owners of the cell are done with it
BothDone == cellAllocs = 1 /\ ~completion /\ cqe = "done"

\* C1: every allocated cell is deallocated exactly once: never twice, never
\* while one of the two parties still needs it, and always once the submitter
\* has given up its handle and the CQ reader has dispatched; the party that
\* frees is the check that reads Completed, the cancel that finds Completed
\* or the dispatch that finds Cancelled.
C1_ExactlyOneDealloc ==
    /\ Len(freedBy) <= cellAllocs
    /\ Len(freedBy) <= 1
    /\ BothDone <=> Len(freedBy) = 1
    /\ (cell.tag = "Freed") <=> Len(freedBy) = 1
    /\ freedBy = <<"check">> => checked # NoResult
    /\ freedBy = <<"cancel">> => checked = NoResult /\ Len(payload.calls) > 0
    /\ freedBy = <<"complete">> => payload.kind # "none"

\* C1 witness: the submitter cancelled first and the dispatch freed the cell
C1_Witness == BothDone /\ freedBy = <<"complete">>

\* C2 as claimed: a payload's resource is released exactly once, and not
\* before the dispatch of its operation.
C2_ReleasedOnceAfterDispatch ==
    payload.kind \in {"Box", "Fd"} =>
        released = (IF cqe = "done" THEN 1 ELSE 0)

\* C3 as claimed: the handler of a Cancellation runs at most once, and
\* exactly once when the Cancellation has been consumed.
C3_HandlerRunsOnce ==
    /\ Len(payload.calls) <= 1
    /\ (payload.kind # "none" /\ cqe = "done") => Len(payload.calls) = 1

\* C17: a CQE whose user_data is null or the kernel timeout sentinel is
\* discarded by dispatch: it is skipped, dispatch neither stops on it nor
\* takes its user_data for the address of a cell.
C17_StrayDiscarded == stray \in {"none", "null"}

\* C18: the result dispatch stores in the cell (and check returns) for a CQE
\* with raw return code n is Ok(n) when n >= 0 and, when n < 0, an error whose
\* OS error code is the errno -n.
C18_ErrnoReported ==
    (cell.tag = "Completed" \/ checked # NoResult) =>
        LET r == IF checked # NoResult THEN checked[1] ELSE cell.result[1] IN
        r = (IF cqeRes >= 0 THEN Ok(cqeRes) ELSE Err(0 - cqeRes))

\* C19: an operation that the cell's table does not allow stops in an
\* assertion and leaves the cell as it was: the step that panics changes no
\* state of the cell, wakes no waker, runs no handler and frees nothing.
C19_IllegalRejected ==
    [][(cellPanic' /\ ~cellPanic) =>
            /\ cell' = cell
            /\ wakes' = wakes
            /\ payload' = payload
            /\ freedBy' = freedBy]_vars

\* C20: once a cell has received both a cancellation payload and a kernel
\* result r, in either order, the cell is deallocated and the payload's handler
\* has been invoked with Some(r).
C20_HandlerGetsResult ==
    (payload.kind # "none" /\ cqe = "done") =>
        /\ cell.tag = "Freed"
        /\ \E i \in 1..Len(payload.calls) : payload.calls[i] = Some(result(cqeRes))

\* C21: the step that takes a Submitted cell to Cancelled stores the payload
\* and wakes no waker, runs no handler, releases and frees nothing; no step
\* taken from a Cancelled cell, the dispatch included, wakes a waker.
C21_CancelQuiet ==
    [][/\ (cell.tag = "Submitted" /\ cell'.tag = "Cancelled") =>
            /\ payload'.kind # "none"
            /\ payload'.calls = <<>>
            /\ wakes' = wakes
            /\ released' = released
            /\ freedBy' = freedBy
       /\ cell.tag = "Cancelled" => wakes' = wakes]_vars

\* a cancelled cell whose CQE has been dispatched
C21_Witness ==
    /\ payload.kind # "none"
    /\ cqe = "done"
    /\ freedBy = <<"complete">>
    /\ \A w \in Wakers : wakes[w] = 0

\* a step of cancel: the submitter gives up its handle without a result
CancelStep == completion /\ ~completion' /\ checked' = checked

KernelCloses ==
    IF payload.kind = "FdPendingClose" /\ cqe = "done" /\ cqeRes >= 0
    THEN 1 ELSE 0

\* C28 as claimed: once the operation has been dispatched, a descriptor
\* carried by the cancellation of an in-flight close has been closed exactly
\* once overall (by the kernel on success, by the handler on failure), and a
\* descriptor carried without a pending close has been closed exactly once
\* by the handler.
C28_FdClosedOnce ==
    (cqe = "done" /\ ~cellPanic /\ freedBy = <<"complete">>) =>
        /\ payload.kind = "FdPendingClose" => released + KernelCloses = 1
        /\ payload.kind = "Fd" => released = 1

\* ------------------------------------------------------------------------
\* Claims about the Submission future (SpecSub)
\* ------------------------------------------------------------------------

KernelHoldsAddresses == sKernel \in {"prepared", "inflight"}

\* C5: dropping a Submission in any state other than Lost never leaves the
\* kernel with the address of freed memory (while the SQE is queued or in
\* flight the cell and the event's buffer are allocated), frees nothing
\* twice, and once the kernel is done (or never saw the operation) the cell
\* is freed and the buffer is freed or was returned to the caller.
C5_DropSafe ==
    /\ KernelHoldsAddresses => (sCell.tag \notin {"None", "Freed"} /\ sBufFrees = 0)
    /\ sBufFrees <= 1
    /\ sCellFrees <= 1
    /\ (sDropped \notin {"no", "Lost"} /\ ~KernelHoldsAddresses) =>
            /\ sCell.tag \in {"None", "Freed"}
            /\ (sBufFrees = 1 \/ sEvent = "returned")

\* a Submission dropped while its operation was in flight, after the dispatch
C5_Witness ==
    /\ sDropped = "Submitted"
    /\ sKernel = "done"
    /\ sCell.tag = "Freed"
    /\ sCellFrees = 1
    /\ sBufFrees = 1
    /\ sWoke = 0

\* C6: Drop in Prepared or Submitted converts the event with
\* Event::cancellation and attaches the callback to the cell, never running
\* the event's destructor; Drop in Waiting runs the event's destructor and
\* touches no cell; Drop in Complete does neither and touches no cell.
C6_DropRoutes ==
    [][(sDropped = "no" /\ sDropped' # "no") =>
        IF sState \in {"Prepared", "Submitted"} THEN
            /\ sEvCancels' = sEvCancels + 1
            /\ sEvDrops' = sEvDrops
            /\ sEvent' = "cancelled"
            /\ IF sCell.tag = "Completed"
               THEN sCell'.tag = "Freed" /\ sBufFrees' = sBufFrees + 1
               ELSE sCell'.tag = "Cancelled" /\ sBufFrees' = sBufFrees
        ELSE IF sState = "Waiting" THEN
            /\ sEvDrops' = sEvDrops + 1
            /\ sEvCancels' = sEvCancels
            /\ sCell' = sCell /\ sCell.tag = "None"
            /\ sCellFrees' = sCellFrees
        ELSE IF sState = "Complete" THEN
            /\ sEvDrops' = sEvDrops
            /\ sEvCancels' = sEvCancels
            /\ sEvent' = sEvent
            /\ sCell' = sCell
            /\ sCellFrees' = sCellFrees
        ELSE TRUE]_vars

\* a Submission dropped in Prepared: callback attached, destructor not run
C6_Witness ==
    /\ sDropped = "Prepared"
    /\ sEvCancels = 1
    /\ sEvDrops = 0
    /\ sCell.tag = "Cancelled"

\* C7: when a poll's check meets a Submitted cell whose waker would not wake
\* the poll's waker, the dispatch that follows wakes the poll's waker (the
\* waker of the most recent such poll), for every interleaving of that poll
\* with the dispatch.
C7_ReplacedWakerWoken ==
    (sWoke # 0 /\ sLastCheck # 0) => sWoke = sLastCheck

\* C8: a Submission whose most recent poll returned Pending and whose
\* operation was dispatched has had the waker of that poll woken.
C8_NoLostWakeup ==
    (/\ sPc = "idle"
     /\ sLastPoll = "Pending"
     /\ sState \in {"Prepared", "Submitted"}
     /\ sDropped = "no"
     /\ sKernel = "done") => sWokenSincePoll

Rank(st) ==
    CASE st = "Waiting" -> 0
      [] st = "Prepared" -> 1
      [] st = "Submitted" -> 2
      [] st = "Complete" -> 3
      [] OTHER -> 0 - 1

C16_CompletesOnce ==
    [][/\ (sState' = "Complete" /\ sState # "Complete") =>
            /\ sub_check(sCell) # NoResult
            /\ sEvent = "owned" /\ sEvent' = "returned"
            /\ sLastPoll' = "Ready"
            /\ sCell'.tag = "Freed" /\ sCell'.result = sCell.result
            /\ sCellFrees' = sCellFrees + 1
       /\ (sLastPoll' = "Ready" /\ sLastPoll # "Ready") =>
            (sState' = "Complete" /\ sState # "Complete")
       /\ (sPc = "idle" /\ sPc' = "set_waker") => sub_check(sCell) = NoResult
       /\ sState = "Complete" =>
            /\ sState' = "Complete"
            /\ sLastPoll' = sLastPoll
            /\ sPc' = sPc
            /\ sPollWaker' = sPollWaker
            /\ sCell' = sCell
            /\ sCellFrees' = sCellFrees
            /\ sEvent' = sEvent
            /\ sKernel' = sKernel]_vars

\* a Submission that completed with an error and was polled again
C16_Witness ==
    /\ sState = "Complete"
    /\ sPanic
    /\ sEvent = "returned"
    /\ sCellFrees = 1
    /\ sCell.result # NoResult
    /\ sCell.result[1] < 0

\* C33 as claimed: no party locks, unlocks, reads or writes the cell after
\* the terminal transition has freed it; in particular the guard taken by
\* cancel or complete is not released after the Box was dropped.
C33_NoAccessAfterFree == ~sUnlockFreed

\* ------------------------------------------------------------------------
\* Claims about the Ring handles (SpecRing)
\* ------------------------------------------------------------------------

RingKernelHoldsBuffer == ring.kernel \in {"prepared", "inflight"} /\ ring.kbuf # 0

LentBufferOwned ==
    /\ RingKernelHoldsBuffer =>
            /\ ring.frees[ring.kbuf] = 0
            /\ \/ ring.dropped = "no" /\ ring.data = ring.kbuf
               \/ ring.cell = "Cancelled" /\ ring.callback = <<ring.kbuf>>
    /\ \A b \in BufIds : ring.frees[b] <= 1
    /\ (ring.dropBuf # 0 /\ ring.kernel = "done") => ring.frees[ring.dropBuf] = 1

\* C4: a buffer lent to the kernel by an operation that is not yet dispatched
\* is allocated and owned by the live handle or by the Cancellation in the
\* operation's cell; no buffer is freed twice; a handle dropped with a read
\* in flight has its buffer freed exactly once, after the dispatch.
C4_LentBufferOwned == LentBufferOwned

\* The same statement for the Ring of src/ring.rs alone.
RawRingLentBufferOwned == ring.impl = "raw" => LentBufferOwned

RingPolled == ring'.pollTick # ring.pollTick

\* C11: after cancel on a handle whose operation is Prepared or Submitted the
\* next poll prepares a new operation; in particular no poll returns Pending
\* without a waker left with the driver or in a cell.
C11_PendingHasWaker == ring.lastPoll = "Pending" => ring.registered

\* C12: a new operation is prepared (a new cell allocated) only in a poll
\* that finds the state Inert, with no cell held by the handle and the CQE of
\* the previous operation, if any, already dispatched.
C12_Serial ==
    [][ring'.cellAllocs # ring.cellAllocs =>
            /\ RingPolled
            /\ ring.state = "Inert"
            /\ ~ring.completion
            /\ ring.kernel \in {"none", "done"}
            /\ ring'.cellAllocs = ring.cellAllocs + 1
            /\ ring'.completion]_vars

\* a second operation prepared after the first one completed
C12_Witness ==
    /\ ring.cellAllocs = 2
    /\ ring.completion
    /\ ring.kernel = "prepared"

\* C13: a poll that finds the cell it holds Completed returns Ready, frees
\* the cell, drops the handle's reference and sets the state to Inert; only
\* such a poll returns Ready; a poll that finds the state Inert prepares a
\* fresh operation with a fresh cell unless the driver has no room.
C13_RingReuse ==
    [][RingPolled =>
        /\ (/\ ring.completion /\ ring.cell = "Completed"
            /\ ring'.current = ring.current
            /\ ring.state \in {"Prepared", "Submitted"}) =>
                /\ ring'.lastPoll = "Ready"
                /\ ring'.cell = "Freed"
                /\ ring'.cellFrees = ring.cellFrees + 1
                /\ ~ring'.completion
                /\ ring'.state = "Inert"
        /\ ring'.lastPoll = "Ready" =>
                ring.completion /\ ring.cell = "Completed" /\ ~ring'.completion
        /\ ring.state = "Inert" =>
                \/ ring'.state = "Inert" /\ ring'.cellAllocs = ring.cellAllocs
                \/ /\ ring'.cellAllocs = ring.cellAllocs + 1
                   /\ ring'.cell = "Submitted"
                   /\ ring'.completion]_vars

\* the handle polled again after a Ready: a fresh cell, the old one freed
C13_Witness ==
    /\ ring.cellAllocs = 2
    /\ ring.cellFrees = 1
    /\ ring.cell = "Submitted"
    /\ ring.state = "Submitted"

\* C22: the poll in which poll_submit returns Ready(Err) still moves the
\* handle to Submitted and returns Pending without a panic; the operation the
\* handle holds stays with the kernel and keeps its cell, and once that cell
\* is Completed the next poll of it returns Ready.
C22_SubmitErrorDiscarded ==
    [][RingPolled =>
        /\ (ring'.submitErr /\ ~ring.submitErr) =>
                /\ ring'.state = "Submitted"
                /\ ring'.lastPoll = "Pending"
                /\ ~ring'.panic
                /\ ring'.kernel # "none"
                /\ ring'.completion => ring'.cell \in {"Submitted", "Completed"}
        /\ (/\ ring.submitErr /\ ring.completion /\ ring.cell = "Completed"
            /\ ring'.current = ring.current) =>
                ring'.lastPoll = "Ready" /\ ring'.state = "Inert"]_vars

\* an operation whose submit failed and that completed all the same
C22_Witness ==
    /\ ring.submitErr
    /\ ring.cellAllocs = 1
    /\ ring.state = "Inert"
    /\ ring.lastPoll = "Ready"
    /\ ring.kernel = "done"
    /\ ring.cell = "Freed"
    /\ ~ring.panic

\* ------------------------------------------------------------------------
\* Claims about the submission segment (SpecSeg)
\* ------------------------------------------------------------------------

\* the entries of the reservation the driver has just finished
Reserved(i) == InArray(i) /\ seg.first <= i /\ i < seg.first + seg.n

\* C9: once finish has returned, the entry that carries the user's operation
\* (the last entry the event took and filled with its operation) has the
\* address of the completion cell finish returned in user_data.
C9_UserDataRoundTrip ==
    (/\ seg.stage = "finished"
     /\ ~segOob
     /\ Reserved(seg.last)
     /\ sqes[seg.last].op = "user") => sqes[seg.last].user_data = seg.addr

\* C10: in a finished reservation, a cancel entry immediately followed by the
\* entry of the new operation has the hard-link flag set.
C10_CancelHardLinked ==
    \A i \in 0..(ENTRIES - 2) :
        (/\ seg.stage = "finished"
         /\ ~segOob
         /\ Reserved(i) /\ Reserved(i + 1)
         /\ sqes[i].op = "cancel"
         /\ sqes[i + 1].op = "user"
         /\ sqes[i + 1].user_data = seg.addr) => IOSQE_IO_HARDLINK \subseteq sqes[i].flags

\* ------------------------------------------------------------------------
\* Claims about the demo drivers (SpecDrv)
\* ------------------------------------------------------------------------

\* C23: a call of poll_prepare that returns Pending has registered the
\* task's waker, a call that returns Ready has run the prepare callback
\* exactly once, and an iteration of the loop that stays in the call has made
\* room in the queue or registered a listener: the call does not go round
\* with the queue as full as before.
C23_Backpressure ==
    [][/\ (drv'.rets # drv.rets /\ drv'.last = "Pending") => drv'.waker
       /\ (drv'.rets # drv.rets /\ drv'.last = "Ready") => drv'.callbacks = 1
       /\ (drv.pc = "loop" /\ drv'.pc = "loop" /\ drv'.iter # drv.iter) =>
            (drv'.used < drv.used \/ drv'.listener = "listening")]_vars

\* ------------------------------------------------------------------------
\* Claims about the Buffer (SpecBuf)
\* ------------------------------------------------------------------------

\* C25: position <= capacity-used <= allocation size in every state, and the
\* fill that finds the buffer without an allocation and gets n from the fill
\* function leaves position 0 and capacity-used n.
C25_CursorInvariant ==
    /\ buf.pos <= buf.cap
    /\ buf.cap <= BufSize
    /\ (buf.op = "fill" /\ buf.filled /\ buf.allocs = 1 /\ buf.data # 0 /\ buf.n > 0) =>
            (buf.pos = 0 /\ buf.cap = buf.n)

\* a call of the method op of the buffer
BufCalled(op) == buf'.tick # buf.tick /\ buf'.op = op

\* C26: consume(n) sets position to min(position + n, capacity-used) for
\* every n, without stopping the caller; it never decreases position and
\* never changes capacity-used.
C26_ConsumeSaturates ==
    [][BufCalled("consume") =>
        /\ ~buf'.panic
        /\ buf'.pos = Min(buf.pos + buf'.amt, buf.cap)
        /\ buf'.pos >= buf.pos
        /\ buf'.cap = buf.cap]_vars

\* C27: cancellation() moves the allocation, if any, into the Cancellation
\* and leaves the buffer without one; a Cancellation frees its allocation
\* once; and the next fill of a buffer left without an allocation calls the
\* fill function on a fresh allocation.
C27_CancellationEmpties ==
    [][/\ BufCalled("cancellation") =>
            /\ buf'.data = 0
            /\ buf.data # 0 => (buf.data \in buf'.held /\ buf'.frees = buf.frees)
       /\ \A a \in 1..MaxBufAllocs :
            /\ buf'.frees[a] <= 1
            /\ buf'.frees[a] # buf.frees[a] => a \in buf.held
       /\ (BufCalled("fill") /\ buf.data = 0) =>
            /\ buf'.filled
            /\ buf'.data # 0
            /\ buf'.data \notin buf.held
            /\ buf'.frees[buf'.data] = 0]_vars

\* ------------------------------------------------------------------------
\* Claims about the File (SpecFile)
\* ------------------------------------------------------------------------

FileCalled(c) == file'.tick # file.tick /\ file'.call = c

\* the calls that start an operation on the ring
IoCalls == {"read", "write", "close", "sync", "statx"}

\* C29: once poll_close has returned Ready(Ok), every later call that would
\* start an operation panics without preparing an SQ entry, and the drop of
\* the File does not close the descriptor again.
C29_UseAfterClose ==
    [][file.closedOk =>
          /\ (\E c \in IoCalls : FileCalled(c)) =>
                  file'.ret = "panic" /\ ~file'.prepared /\ file'.ring = file.ring
          /\ FileCalled("drop") =>
                  /\ file'.lclosed = 0
                  /\ file'.kclosed
                  /\ file'.olds = file.olds]_vars

\* a File closed by poll_close, used again (the call panicked), then dropped
C29_Witness == file.closedOk /\ file.panicked /\ file.dropped

\* C30 as claimed: a read that is started after seek(Start(p)), with no
\* operation of the File in flight, returns the file's bytes beginning at
\* offset p, whatever came before the seek.
C30_ReadAfterSeek ==
    [][(FileCalled("read") /\ file'.ret = "ok" /\ file.after # -1
            /\ file.ring = "Inert" /\ file.olds = {}) =>
          LET n == Len(file'.retBytes) IN
          /\ file.after + n <= Len(file'.content)
          /\ file'.retBytes = SubSeq(file'.content, file.after + 1, file.after + n)
          /\ n = 0 => file.after >= Len(file'.content)]_vars

\* ------------------------------------------------------------------------
\* Claims about the AccessQueue (SpecAq)
\* ------------------------------------------------------------------------

\* C31: block(amt) returns true exactly when its step lowered the count by
\* amt, and returns false with the count unchanged after it has seen fewer
\* than amt accesses; under every interleaving the count is never negative
\* and equals initial + released - blocked.
C31_BlockAtomic ==
    /\ [](aq.count >= 0 /\ aq.count = aq.initial + aq.released - aq.blocked)
    /\ [][aq'.tick # aq.tick =>
            LET i == aq'.who
                me == aq'.t[i]
            IN /\ me.amt > 0 =>
                    (me.ret = "true" <=> aq'.count = aq.count - me.amt)
               /\ me.ret = "true" => aq'.count = aq.count - me.amt
               /\ me.ret = "false" => aq'.count = aq.count /\ me.seen < me.amt
               /\ me.ret = "none" => aq'.count = aq.count]_vars

\* both threads are inside block, one has returned true and one false, with
\* a release in between
C31_Witness ==
    /\ aq.t[1].ret = "true"
    /\ aq.t[2].ret = "false"
    /\ aq.released > 0
    /\ aq.blocked > 0

\* ------------------------------------------------------------------------
\* Claims about the order of unlock and wake (SpecWake)
\* ------------------------------------------------------------------------

\* C32 as claimed: wake() is called with the lock released and the state
\* Completed, so an inline waker's check reads the result and no thread
\* waits for its own lock.
C32_WakeAfterUnlock ==
    /\ ~wk.stuck
    /\ wk.woken => (~wk.wokeAt.locked /\ wk.wokeAt.tag = "Completed")
    /\ (wk.woken /\ wk.inline) => wk.got = Some(result(wk.res))

\* ------------------------------------------------------------------------
\* Further claims about the submission segment (SpecSeg)
\* ------------------------------------------------------------------------

\* the entries of the current reservation, as the kernel indexes them
ReservedEntries == {(seg.first + k) % ENTRIES : k \in 0..(seg.n - 1)}

\* C34 as claimed: when all n entries of a reservation were taken through
\* hard_linked() and released, every entry but the last has
\* IOSQE_IO_HARDLINK set and the last has not.
C34_HardLinkFlags ==
    (seg.stage = "reserved" /\ seg.n >= 1 /\ Cardinality(seg.hl) = seg.n) =>
        \A i \in seg.hl :
            InArray(i) =>
                IF i = seg.last
                THEN IOSQE_IO_HARDLINK \cap sqes[i].flags = {}
                ELSE IOSQE_IO_HARDLINK \subseteq sqes[i].flags

\* C36 as claimed: after finish, a reservation that was used through
\* singular() or hard_linked() has the cell address in the user-data of its
\* last entry and user-data 0 in every other entry.
C36_OneCqePerReservation ==
    (seg.stage = "finished" /\ seg.last # 0 - 1) =>
        LET lastIdx == (seg.first + seg.n - 1) % ENTRIES IN
        /\ sqes[lastIdx].user_data = seg.addr
        /\ \A i \in ReservedEntries \ {lastIdx} : sqes[i].user_data = 0

\* C37 as claimed: prepare(n) moves the tail only when tail + n - head fits
\* the ring, and every entry the reservation hands out lies inside the
\* entry array.
C37_PrepareInsideRing ==
    /\ [](~segOob /\ (seg.last # 0 - 1 => InArray(seg.last)))
    /\ [][sqe_tail' # sqe_tail =>
            /\ seg'.stage = "reserved"
            /\ sqe_tail' = sqe_tail + seg'.n
            /\ sqe_tail' - khead <= ENTRIES]_vars

\* ------------------------------------------------------------------------
\* Claims about the Engine state machine (SpecEng)
\* ------------------------------------------------------------------------

EngSubmitted == {"Submitted", "ReadSubmitted"}

\* C35: once poll_submit has returned Ready for the operation in flight, the
\* state is Submitted, and no later poll of that operation has called
\* poll_submit again: such a poll only checks the cell.
C35_SubmitOnce ==
    eng.ready => /\ eng.state \in EngSubmitted
                 /\ eng.again = 0

\* ------------------------------------------------------------------------
\* Further claims about the File (SpecFile)
\* ------------------------------------------------------------------------

\* C38: a File is Closed only after a close has completed with success: a
\* completed sync, read, write or statx leaves it open, so that the drop of
\* a File that was never closed and has no operation in flight releases the
\* descriptor.
C38_ClosedOnlyByClose ==
    /\ [](file.active = "Closed" => file.closedOk)
    /\ [][(FileCalled("drop") /\ ~file.closedOk /\ file.ring = "Inert")
              => ~file'.fdOpen]_vars

\* ------------------------------------------------------------------------
\* Claims about the demo driver's access queue (SpecDemo)
\* ------------------------------------------------------------------------

InFlight == demo.sq + demo.kernel + demo.cq

DemoBudgetKept == demo.made => demo.count + InFlight = Budget /\ InFlight <= Budget

DemoWaiting(i) == demo.listener[i] # "none"

\* C39: the accesses available and the operations prepared and not yet
\* completed add up to the budget at all times, so that no more than the
\* budget are in flight, and every task that waits for an access is
\* eventually granted one.
C39_BudgetAndGrant ==
    /\ []DemoBudgetKept
    /\ \A i \in DemoTasks : DemoWaiting(i) ~> (demo.last[i] = "Ready")

====
